---- MODULE Spec2Model ----
(***************************************************************************)
(* Device command/response protocol layer of the LEGO drivers:            *)
(* PoweredUp and DuploTrain sessions (motor timing state machine, port    *)
(* registry, rate-limited send pipeline, PROJECT_STOP_ALL) and the SPIKE  *)
(* JSON session (carriage-return framed replies, pending-request table).  *)
(*                                                                         *)
(* Time is the value of Date.now() in milliseconds.  Every handler of the  *)
(* single-threaded event loop is one action; `out` holds the payloads the  *)
(* handler handed to the transport's write (the byte array before its      *)
(* base64 transport encoding), `lastOp` names the handler that ran last.   *)
(***************************************************************************)
EXTENDS Integers, Sequences, FiniteSets, TLC

\* ------------------------------------------------------------------------
\* Program constants
\* ------------------------------------------------------------------------
Null == -1

BLESendRateMax == 20

BTSendRateMax == 40

BRAKE_TIME_MS == 1000

SensorConfigDelay == 100
\* BLESendInterval: the settle interval of the untimed blocks, in ms
BLESendInterval == 100

RateWindowMs == 1000

PoweredUpTypes ==
    [MOTOR |-> 1, TRAIN_MOTOR |-> 2, LED_LIGHT |-> 8, PIEZO |-> 22,
     LED |-> 23, TILT |-> 34, DISTANCE |-> 35]

PoweredUpConnectIDs == [LED |-> 6, PIEZO |-> 5]

PoweredUpCommands ==
    [MOTOR_POWER |-> 1, PLAY_TONE |-> 2, STOP_TONE |-> 3, WRITE_RGB |-> 4]

DuploTrainTypes ==
    [LED |-> 23, MOTOR |-> 41, SPEAKER |-> 42, COLOR |-> 43, SPEEDOMETER |-> 44]

DuploTrainConnectIDs == [SPEAKER |-> 1, LED |-> 17]

MotorID == [A |-> "port A", B |-> "port B", ALL |-> "all ports"]

\* ------------------------------------------------------------------------
\* Bounds of the model
\* ------------------------------------------------------------------------
\* The clock runs from 0 to MaxTicks * Tick milliseconds.
MaxTicks == 2

\* At most this many motor handle objects are alive (registered at a port or
\* referenced by a scheduled timer) at the same time.
MaxHandles == 2

\* At most this many stop-tone writes of PoweredUp._stopAll are awaiting
\* their completion at the same time.
MaxPending == 1

\* The scripts of the SPIKE specifications issue at most this many limited
\* commands that need no response.
MaxBurst == 2

\* The scripts of a specification run at most this many blocks.
MaxCalls == 2

\* The scripts of the motor timing specification run at most this many
\* blocks.
MaxDeep == 3

\* The scripts of the frame specification and of the specification of
\* sessions that are not connected run at most this many blocks.
MaxSolo == 1

\* A script stops sending through the limiter when the limiter has dropped
\* this many sends of its current window.
MaxDropped == 1

\* At most this many SPIKE requests that need a response are issued.
MaxRequests == 2

Tick == BRAKE_TIME_MS

MaxTime == MaxTicks * Tick

Families == {"PoweredUp", "DuploTrain"}

\* Ports a notification can name: the two motor slots of `_motors`.
ConnectIDs == {0, 1}

\* Power arguments of the blocks and of the power setter.
Powers == {-150, 150}

\* Device type codes carried by attach notifications.
AttachTypes(f) ==
    IF f = "PoweredUp"
    THEN {PoweredUpTypes.MOTOR, PoweredUpTypes.TILT, PoweredUpTypes.DISTANCE}
    ELSE {DuploTrainTypes.MOTOR, DuploTrainTypes.COLOR}

\* Value bytes carried by the sensor notifications of the model.
SensorValues == {7}

VARIABLES
    fam,        \* which session class this behaviour is about
    ble,        \* "null": _ble is null; "idle": transport object, no link; "connected"
    ports,      \* _ports: connect id -> device type code (a partial map)
    motors,     \* _motors: connect id -> motor handle (object id) or Null
    sensors,    \* _sensors
    objs,       \* the motor handle objects still referenced: id -> fields
    timers,     \* the scheduled setTimeout entries
    lim,        \* _rateLimiter state
    now,        \* Date.now()
    stopPending,\* PoweredUp._stopAll continuations awaiting the stop-tone write
    spk,        \* the SPIKE session: pending-request table and sensor state
    sent,       \* limited sends on the connected session in the limiter's window
    calls,      \* the blocks the scripts of the run have run
    out,        \* payloads written to the transport by the last handler
    lastOp      \* the handler that ran last

vars == <<fam, ble, ports, motors, sensors, objs, timers, lim, now,
          stopPending, spk, sent, calls, out, lastOp>>

\* ------------------------------------------------------------------------
\* Helpers
\* ------------------------------------------------------------------------
Min(S) == CHOOSE x \in S : \A y \in S : x <= y

Max2(a, b) == IF a >= b THEN a ELSE b

Min2(a, b) == IF a <= b THEN a ELSE b

\* Storing a number into a Uint8Array slot keeps its low 8 bits.
ToUint8(v) == v % 256

\* lastOp: the handler's name and arguments; for a timer callback the port of
\* its motor handle, the callback, whether that handle was still the one
\* registered at its port and (args) the callback it had scheduled when a
\* reset discarded it; the
\* callbacks of the timers the handler cancelled.
\* ret is the promise the handler returned: "resolved" for Promise.resolve(),
\* "write" for the promise of the transport's write, "request" for the
\* promise of a pending SPIKE request, "pending" for a promise of its own
\* that a timer of the handler resolves, "" when it returned none of these.
\* before is what a notification handler found: the type registered at the
\* port of the notification and the sensor values, or the SPIKE session, or
\* the EV3 motor.  traced holds the messages the handler gave to Spike.send,
\* which logs a trace and writes nothing.
Op(name) ==
    [name |-> name, args |-> <<>>, port |-> Null, cb |-> "", live |-> TRUE,
     cleared |-> {}, ret |-> "", before |-> <<>>, traced |-> <<>>]

\* getPeripheralIsConnected / isConnected
IsConnected == ble = "connected"

\* ------------------------------------------------------------------------
\* Rate limiter (util/rateLimiter.js): at most `max` permitted sends in the
\* current one-second window; a refused send is dropped.
\* ------------------------------------------------------------------------
NewRateLimiter(maxRate) == [max |-> maxRate, start |-> 0, count |-> 0]

OkayToSend(l, t) ==
    LET cur == IF t - l.start >= RateWindowMs
               THEN [l EXCEPT !.start = t, !.count = 0]
               ELSE l
    IN IF cur.count < cur.max
       THEN [ok |-> TRUE, lim |-> [cur EXCEPT !.count = @ + 1]]
       ELSE [ok |-> FALSE, lim |-> cur]

\* ------------------------------------------------------------------------
\* The send pipeline.  A "world" W is the part of the state a motor
\* operation can change: [objs, timers, lim, spk, sent, out], the promise
\* the last send returned (ret), and the callbacks of the timers the handler
\* cancelled with clearTimeout (cleared).
\* ------------------------------------------------------------------------
World ==
    [objs |-> objs, timers |-> timers, lim |-> lim, spk |-> spk, sent |-> sent,
     out |-> <<>>, ret |-> "", traced |-> <<>>, cleared |-> {}]

\* The counters `sent` after one more limited send on the connected session
\* that left the limiter as l and wrote k (0 or 1) messages: they count the
\* limited sends of the limiter's current window, and start again when the
\* limiter starts a new window.
Counted(W, l, k) ==
    LET s == IF l.start # W.lim.start THEN [calls |-> 0, writes |-> 0]
             ELSE W.sent
    IN [calls |-> s.calls + 1, writes |-> s.writes + k]

\* _send without the connectivity check.
SendUnconnected(W, message, useLimiter) ==
    IF useLimiter
    THEN LET r == OkayToSend(W.lim, now)
         IN IF r.ok
            THEN [W EXCEPT !.lim = r.lim,
                           !.out = Append(@, message), !.ret = "write"]
            ELSE [W EXCEPT !.lim = r.lim, !.ret = "resolved"]
    ELSE [W EXCEPT !.out = Append(@, message), !.ret = "write"]

\* _send that writes a limited message also when the limiter refuses it.
SendIgnoringLimiter(W, message, useLimiter) ==
    IF ~IsConnected THEN [W EXCEPT !.ret = "resolved"]
    ELSE IF useLimiter
         THEN [W EXCEPT !.lim = OkayToSend(W.lim, now).lim,
                        !.sent = Counted(W, OkayToSend(W.lim, now).lim, 1),
                        !.out = Append(@, message), !.ret = "write"]
         ELSE [W EXCEPT !.out = Append(@, message), !.ret = "write"]

\* _send that asks the limiter before it tests the connection.
SendLimiterFirst(W, message, useLimiter) ==
    LET r == OkayToSend(W.lim, now)
    IN IF useLimiter /\ ~r.ok THEN [W EXCEPT !.lim = r.lim, !.ret = "resolved"]
       ELSE LET W1 == IF useLimiter THEN [W EXCEPT !.lim = r.lim] ELSE W
            IN IF ~IsConnected THEN [W1 EXCEPT !.ret = "resolved"]
               ELSE IF useLimiter
                    THEN [W1 EXCEPT !.sent = Counted(W, r.lim, 1),
                                    !.out = Append(@, message), !.ret = "write"]
                    ELSE [W1 EXCEPT !.out = Append(@, message), !.ret = "write"]

\* _send that asks the limiter also for a message sent with useLimiter false.
SendAlwaysLimited(W, message, useLimiter) ==
    IF ~IsConnected THEN [W EXCEPT !.ret = "resolved"]
    ELSE LET r == OkayToSend(W.lim, now)
         IN IF r.ok
            THEN [W EXCEPT !.lim = r.lim, !.sent = Counted(W, r.lim, 1),
                           !.out = Append(@, message), !.ret = "write"]
            ELSE [W EXCEPT !.lim = r.lim, !.sent = Counted(W, r.lim, 0),
                           !.ret = "resolved"]

\* PoweredUp._send / DuploTrain._send
Send(W, message, useLimiter) ==
    IF ~IsConnected THEN [W EXCEPT !.ret = "resolved"]
    ELSE IF useLimiter
         THEN LET r == OkayToSend(W.lim, now)
              IN IF r.ok
                 THEN [W EXCEPT !.lim = r.lim, !.sent = Counted(W, r.lim, 1),
                                !.out = Append(@, message), !.ret = "write"]
                 ELSE [W EXCEPT !.lim = r.lim, !.sent = Counted(W, r.lim, 0),
                                !.ret = "resolved"]
         ELSE [W EXCEPT !.out = Append(@, message), !.ret = "write"]

\* ------------------------------------------------------------------------
\* PoweredUpMotor / DuploTrainMotor
\* ------------------------------------------------------------------------
NewMotor(index) ==
    [index |-> index, direction |-> 1, power |-> 100, isOn |-> FALSE,
     pendingTimeoutId |-> Null, pendingTimeoutStartTime |-> Null,
     pendingTimeoutDelay |-> Null, resetDuring |-> ""]

\* The power setter without the clamp.
PowerSetterUnclamped(value) == value

\* set power (value)
PowerSetter(value) == Max2(-100, Min2(value, 100))

\* set direction (value)
DirectionSetter(value) == IF value < 0 THEN -1 ELSE 1

\* The 8-byte output command of setMotorOn / startBraking / setMotorOff.
MotorFrame(index, power) == <<8, 0, 129, index, 17, 81, 0, ToUint8(power)>>

BrakeByte == 127

\* _clearTimeout without its clearTimeout call: the fields are reset, the
\* timer stays scheduled.
ClearTimeoutKeepsTimer(W, h) ==
    IF W.objs[h].pendingTimeoutId # Null
    THEN [W EXCEPT
            !.objs[h].pendingTimeoutId = Null,
            !.objs[h].pendingTimeoutStartTime = Null,
            !.objs[h].pendingTimeoutDelay = Null]
    ELSE W

\* _clearTimeout
ClearTimeout(W, h) ==
    IF W.objs[h].pendingTimeoutId # Null
    THEN [W EXCEPT
            !.timers = {t \in @ : t.id # W.objs[h].pendingTimeoutId},
            !.cleared = @ \cup {t.cb : t \in {u \in W.timers :
                                    u.id = W.objs[h].pendingTimeoutId}},
            !.objs[h].pendingTimeoutId = Null,
            !.objs[h].pendingTimeoutStartTime = Null,
            !.objs[h].pendingTimeoutDelay = Null]
    ELSE W

\* The id setTimeout returns: one no scheduled timer and no handle holds.
NewTimeoutId(W) ==
    Min({n \in 1..(Cardinality(W.timers) + Cardinality(DOMAIN W.objs) + 1) :
            /\ \A t \in W.timers : t.id # n
            /\ \A h \in DOMAIN W.objs : W.objs[h].pendingTimeoutId # n})

\* _setNewTimeout
SetNewTimeout(W, h, callback, delay) ==
    LET W1 == ClearTimeout(W, h)
        timeoutID == NewTimeoutId(W1)
    IN [W1 EXCEPT
          !.timers = @ \cup {[id |-> timeoutID, h |-> h, cb |-> callback,
                              due |-> now + delay, arg |-> <<>>]},
          !.objs[h].pendingTimeoutId = timeoutID,
          !.objs[h].pendingTimeoutStartTime = now,
          !.objs[h].pendingTimeoutDelay = delay]

\* setMotorOn without its _clearTimeout call.
SetMotorOnKeepsTimeout(W, h) ==
    LET W1 == Send(W, MotorFrame(W.objs[h].index, W.objs[h].power), TRUE)
    IN [W1 EXCEPT !.objs[h].isOn = TRUE]

\* setMotorOn
SetMotorOn(W, h) ==
    LET W1 == Send(W, MotorFrame(W.objs[h].index, W.objs[h].power), TRUE)
    IN ClearTimeout([W1 EXCEPT !.objs[h].isOn = TRUE], h)

\* setMotorOnFor
SetMotorOnFor(W, h, milliseconds) ==
    LET ms == Max2(0, milliseconds)
    IN SetNewTimeout(SetMotorOn(W, h), h, "startBraking", ms)

\* startBraking that schedules no setMotorOff.
StartBrakingNoSettle(W, h) ==
    LET W1 == Send(W, MotorFrame(W.objs[h].index, BrakeByte), TRUE)
    IN [W1 EXCEPT !.objs[h].isOn = FALSE]

\* startBraking
StartBraking(W, h) ==
    LET W1 == Send(W, MotorFrame(W.objs[h].index, BrakeByte), TRUE)
    IN SetNewTimeout([W1 EXCEPT !.objs[h].isOn = FALSE], h, "setMotorOff",
                     BRAKE_TIME_MS)

\* setMotorOff that leaves _isOn as it is.
SetMotorOffKeepsIsOn(W, h, useLimiter) ==
    Send(W, MotorFrame(W.objs[h].index, 0), useLimiter)

\* setMotorOff
SetMotorOff(W, h, useLimiter) ==
    LET W1 == Send(W, MotorFrame(W.objs[h].index, 0), useLimiter)
    IN [W1 EXCEPT !.objs[h].isOn = FALSE]

\* ------------------------------------------------------------------------
\* The SPIKE session's own state (Spike constructor).  open is _openRequests:
\* correlation id -> the request (promise) registered under it; requests are
\* numbered in the order sendJSON created them, nreq counts them, resolved
\* holds those whose resolve was called.
\* ------------------------------------------------------------------------
SpikeOrientation ==
    [any |-> 0, front |-> 1, back |-> 2, up |-> 3, down |-> 4,
     rightside |-> 5, leftside |-> 6]

NoRequests == [i \in {} |-> 0]

\* EV3Motor constructor; nuid counts the ids uid() has handed out.
NewEV3Motor(index) ==
    [index |-> index, direction |-> 1, power |-> 50, position |-> 0,
     commandID |-> Null, coastDelay |-> 1000, nuid |-> 0]

SpikeSensors ==
    [distance |-> 0, brightness |-> 0, buttons |-> <<0, 0, 0, 0>>,
     angle |-> [pitch |-> 0, roll |-> 0, yaw |-> 0],
     orientation |-> SpikeOrientation.front]

NewSpike ==
    [open |-> NoRequests, nreq |-> 0, resolved |-> {}, sensors |-> SpikeSensors,
     motors |-> <<Null, Null, Null, Null>>, onConnect |-> FALSE,
     ev3 |-> NewEV3Motor(0), atReset |-> {}]

\* ------------------------------------------------------------------------
\* Session state helpers
\* ------------------------------------------------------------------------
DefaultSensors(f) ==
    IF f = "PoweredUp"
    THEN [tiltX |-> 0, tiltY |-> 0, distance |-> 0]
    ELSE IF f = "DuploTrain" THEN [color |-> -1]
    ELSE <<>>

NoMotors == [c \in ConnectIDs |-> Null]

NoPorts == [c \in {} |-> 0]

\* The handle objects something still refers to: a motor slot or a timer.
Live(W, m) ==
    {h \in DOMAIN W.objs :
        \/ \E c \in DOMAIN m : m[c] = h
        \/ \E t \in W.timers : t.h = h}

\* The state after a handler that leaves the world W and the motor slots m.
Commit(W, m) ==
    /\ motors' = m
    /\ objs' = [h \in Live(W, m) |-> W.objs[h]]
    /\ timers' = W.timers
    /\ lim' = W.lim
    /\ spk' = W.spk
    /\ sent' = W.sent
    /\ out' = W.out

\* JavaScript's 0-based data[k]; Null stands for undefined.
At(data, k) == IF k + 1 <= Len(data) THEN data[k + 1] ELSE Null

\* The object id of a handle constructed now.
NewHandleId(W) == Min({n \in 1..(Cardinality(DOMAIN W.objs) + 1) : n \notin DOMAIN W.objs})

\* MathUtil.clamp (util/math-util.js)
MathUtilClamp(n, lo, hi) == Min2(Max2(n, lo), hi)

\* ------------------------------------------------------------------------
\* The SPIKE session: JSON commands out, JSON replies and telemetry in.
\* A text is a sequence of tokens: a carriage return, a blank, a JSON
\* object, or characters that are not JSON.  NoId stands for an absent `i`.
\* ------------------------------------------------------------------------
NoId == "null"

CR == [k |-> "cr"]

Blank == [k |-> "sp"]

Garbage == [k |-> "bad"]

JsonText(json) == [k |-> "json", v |-> json]

\* sendJSON that registers the request before it tests the connection.
SendJSONRegistersFirst(W, json, useLimiter) ==
    IF ~IsConnected
    THEN IF json.i # NoId
         THEN [W EXCEPT
                 !.spk.nreq = @ + 1,
                 !.spk.open = [i \in DOMAIN @ \cup {json.i} |->
                                 IF i = json.i THEN W.spk.nreq + 1 ELSE @[i]],
                 !.ret = "resolved"]
         ELSE [W EXCEPT !.ret = "resolved"]
    ELSE LET r  == OkayToSend(W.lim, now)
             W1 == IF useLimiter
                   THEN [W EXCEPT !.lim = r.lim, !.sent = Counted(W, r.lim, 1)]
                   ELSE W
             W2 == [W1 EXCEPT !.out = Append(@, <<JsonText(json), CR>>)]
         IN IF useLimiter /\ ~r.ok
            THEN [W EXCEPT !.lim = r.lim, !.sent = Counted(W, r.lim, 0),
                           !.ret = "resolved"]
            ELSE IF json.i # NoId
                 THEN [W2 EXCEPT
                         !.spk.nreq = @ + 1,
                         !.spk.open = [i \in DOMAIN @ \cup {json.i} |->
                                         IF i = json.i THEN W.spk.nreq + 1
                                         ELSE @[i]],
                         !.ret = "request"]
                 ELSE [W2 EXCEPT !.ret = "write"]

\* Spike.sendJSON
SendJSON(W, json, useLimiter) ==
    IF ~IsConnected THEN [W EXCEPT !.ret = "resolved"]
    ELSE LET r  == OkayToSend(W.lim, now)
             W1 == IF useLimiter
                   THEN [W EXCEPT !.lim = r.lim, !.sent = Counted(W, r.lim, 1)]
                   ELSE W
             W2 == [W1 EXCEPT !.out = Append(@, <<JsonText(json), CR>>)]
         IN IF useLimiter /\ ~r.ok
            THEN [W EXCEPT !.lim = r.lim, !.sent = Counted(W, r.lim, 0),
                           !.ret = "resolved"]
            ELSE IF json.i # NoId
                 THEN [W2 EXCEPT
                         !.spk.nreq = @ + 1,
                         !.spk.open = [i \in DOMAIN @ \cup {json.i} |->
                                         IF i = json.i THEN W.spk.nreq + 1
                                         ELSE @[i]],
                         !.ret = "request"]
                 ELSE [W2 EXCEPT !.ret = "write"]

\* Spike.sendCommand; id is the value Math.random().toString(36).slice(-4)
\* gave when a response is needed.
SendCommandTo(W, method, params, needsResponse, id) ==
    IF needsResponse
    THEN SendJSON(W, [i |-> id, m |-> method, p |-> params], TRUE)
    ELSE SendJSON(W, [i |-> NoId, m |-> method, p |-> params], TRUE)

\* Spike._onConnect
SpikeOnConnect(W) == SendCommandTo(W, "trigger_current_state", "{}", FALSE, NoId)

\* Spike.reset: _openRequests is not among the fields it assigns.  atReset
\* records, for the claims, the requests that were pending when it ran.
SpikeReset(W) ==
    [W EXCEPT !.spk.sensors = SpikeSensors,
              !.spk.motors = <<Null, Null, Null, Null>>,
              !.spk.atReset = @ \cup {W.spk.open[i] : i \in DOMAIN W.spk.open}]

\* String.prototype.trim on a text: carriage returns and blanks are white space.
IsSpace(tok) == tok.k \in {"cr", "sp"}

RECURSIVE TrimStart(_)
TrimStart(text) ==
    IF text # <<>> /\ IsSpace(Head(text)) THEN TrimStart(Tail(text)) ELSE text

RECURSIVE TrimEnd(_)
TrimEnd(text) ==
    IF text # <<>> /\ IsSpace(text[Len(text)])
    THEN TrimEnd(SubSeq(text, 1, Len(text) - 1))
    ELSE text

Trim(text) == TrimEnd(TrimStart(text))

\* text.split('\r'): the fragments between carriage returns, at least one.
RECURSIVE SplitCR(_, _)
SplitCR(text, fragment) ==
    IF text = <<>> THEN <<fragment>>
    ELSE IF Head(text).k = "cr"
         THEN <<fragment>> \o SplitCR(Tail(text), <<>>)
         ELSE SplitCR(Tail(text), Append(fragment, Head(text)))

\* JSON.parse of a fragment: one JSON object, blanks around it allowed;
\* anything else throws.
Solid(fragment) == SelectSeq(fragment, LAMBDA tok : tok.k # "sp")

JsonParses(fragment) ==
    /\ Len(Solid(fragment)) = 1
    /\ Solid(fragment)[1].k = "json"

JsonParse(fragment) == Solid(fragment)[1].v

\* The property names every plain object inherits from Object.prototype:
\* SpikeOrientation and _openRequests are plain objects, so a lookup under
\* one of these names finds the inherited member.
ObjectPrototypeNames ==
    {"constructor", "hasOwnProperty", "isPrototypeOf", "propertyIsEnumerable",
     "toLocaleString", "toString", "valueOf", "__proto__",
     "__defineGetter__", "__defineSetter__", "__lookupGetter__",
     "__lookupSetter__"}

\* What a lookup under an inherited name yields: a function, or the
\* prototype object itself.
Inherited(name) == IF name = "__proto__" THEN "object" ELSE "function"

\* A hub status (m = 0) whose p has no element 8 makes `angle[0]` a read of
\* undefined: parseResponse throws before it changes anything.
StatusThrows(response) == response.m = 0 /\ Len(response.p) < 9

\* Whether parseResponse throws on a parsed object in the session sp: on
\* such a hub status, or at `openRequest.resolve()` when the id has no entry
\* of its own and names an inherited member, which has no resolve method.
ParseThrows(sp, response) ==
    \/ StatusThrows(response)
    \/ /\ response.i # NoId
       /\ response.i \notin DOMAIN sp.open
       /\ response.i \in ObjectPrototypeNames

\* parseResponse that resolves the request and leaves its entry in the table.
ParseResponseKeepsEntry(sp, response) ==
    LET s1 == IF response.m = 0
              THEN [sp EXCEPT !.sensors.angle =
                        [yaw   |-> response.p[9][1],
                         pitch |-> response.p[9][2],
                         roll  |-> response.p[9][3]]]
              ELSE IF response.m = 4
                      /\ response.p \in DOMAIN SpikeOrientation
                      /\ SpikeOrientation[response.p] # 0
                   THEN [sp EXCEPT !.sensors.orientation =
                                        SpikeOrientation[response.p]]
                   ELSE IF response.m = 4
                           /\ response.p \in ObjectPrototypeNames
                        THEN [sp EXCEPT !.sensors.orientation =
                                             Inherited(response.p)]
                        ELSE sp
    IN IF response.i = NoId THEN s1
       ELSE IF response.i \in DOMAIN s1.open
            THEN [s1 EXCEPT !.resolved = @ \cup {s1.open[response.i]}]
            ELSE s1

\* Spike.parseResponse on the session record sp; when it throws at
\* `openRequest.resolve()`, what it did before stays.
ParseResponse(sp, response) ==
    LET s1 == IF response.m = 0
              THEN [sp EXCEPT !.sensors.angle =
                        [yaw   |-> response.p[9][1],
                         pitch |-> response.p[9][2],
                         roll  |-> response.p[9][3]]]
              ELSE IF response.m = 4
                      /\ response.p \in DOMAIN SpikeOrientation
                      /\ SpikeOrientation[response.p] # 0
                   THEN [sp EXCEPT !.sensors.orientation =
                                        SpikeOrientation[response.p]]
                   ELSE IF response.m = 4
                           /\ response.p \in ObjectPrototypeNames
                        THEN [sp EXCEPT !.sensors.orientation =
                                             Inherited(response.p)]
                        ELSE sp
    IN IF response.i = NoId THEN s1
       ELSE IF response.i \in DOMAIN s1.open
            THEN [s1 EXCEPT
                    !.open = [i \in DOMAIN @ \ {response.i} |-> @[i]],
                    !.resolved = @ \cup {s1.open[response.i]}]
            ELSE s1

\* The forEach of _onMessage inside its try: the first fragment that fails
\* to parse, or whose dispatch throws, ends the loop; what earlier fragments
\* did, and what the throwing dispatch did before it threw, stays.
RECURSIVE Dispatch(_, _)
Dispatch(sp, responses) ==
    IF responses = <<>> THEN sp
    ELSE IF ~JsonParses(Head(responses)) THEN sp
    ELSE IF StatusThrows(JsonParse(Head(responses))) THEN sp
    ELSE IF ParseThrows(sp, JsonParse(Head(responses)))
         THEN ParseResponse(sp, JsonParse(Head(responses)))
    ELSE Dispatch(ParseResponse(sp, JsonParse(Head(responses))),
                  Tail(responses))

\* text.trim().split('\r') of _onMessage
Responses(text) == SplitCR(Trim(text), <<>>)

\* Spike._onMessage.  The handler tests nothing about the session; the
\* specifications let the transport call it while the link is up.
SpikeOnMessage(text) ==
    /\ fam = "Spike"
    /\ Commit([World EXCEPT !.spk = Dispatch(@, Responses(text))], motors)
    /\ lastOp' = [Op("spikeOnMessage") EXCEPT !.args = text, !.before = spk]
    /\ UNCHANGED <<fam, calls, ble, ports, sensors, now, stopPending>>

\* The transport calls _onConnect once the link is up.
SpikeOnConnectCalled ==
    /\ fam = "Spike"
    /\ spk.onConnect
    /\ Commit(SpikeOnConnect([World EXCEPT !.spk.onConnect = FALSE]), motors)
    /\ lastOp' = Op("onConnect")
    /\ UNCHANGED <<fam, calls, ble, ports, sensors, now, stopPending>>

\* A block or caller of Spike.sendCommand.
SendCommand(method, needsResponse, id) ==
    /\ fam = "Spike"
    /\ LET W == SendCommandTo(World, method, "{}", needsResponse, id)
       IN /\ Commit(W, motors)
          /\ lastOp' = [Op("sendCommand") EXCEPT
                          !.args = <<method, IF needsResponse THEN id ELSE NoId>>,
                          !.ret = W.ret]
    /\ UNCHANGED <<fam, calls, ble, ports, sensors, now, stopPending>>

\* A caller of Spike.sendJSON that passes useLimiter itself.
SendJSONCalled(id, useLimiter) ==
    /\ fam = "Spike"
    /\ LET W == SendJSON(World,
                    [i |-> id, m |-> "scratch.display_clear", p |-> "{}"],
                    useLimiter)
       IN /\ Commit(W, motors)
          /\ lastOp' = [Op("sendJSON") EXCEPT
                          !.args = <<id, useLimiter>>, !.ret = W.ret]
    /\ UNCHANGED <<fam, calls, ble, ports, sensors, now, stopPending>>

\* ------------------------------------------------------------------------
\* Lifecycle
\* ------------------------------------------------------------------------
\* PoweredUp.startDeviceScan / DuploTrain.scan: a new transport object.
Scan ==
    /\ ble' = "idle"
    /\ out' = <<>>
    /\ lastOp' = Op("scan")
    /\ UNCHANGED <<fam, calls, ports, motors, sensors, objs, timers, lim, now, stopPending, spk, sent>>

\* connectDevice / connect, and the transport's _onConnect once the link is up.
Connect ==
    /\ ble = "idle"
    /\ ble' = "connected"
    /\ spk' = [spk EXCEPT !.onConnect = (fam = "Spike")]
    /\ out' = <<>>
    /\ lastOp' = Op("connect")
    /\ UNCHANGED <<fam, calls, ports, motors, sensors, objs, timers, lim, now, stopPending, sent>>

\* The registry and sensor values a session holds, for the claims.
SessionValues ==
    [ports |-> ports, motors |-> motors,
     sensors |-> IF fam = "Spike" THEN spk.sensors ELSE sensors]

\* A reset that leaves the sensor values as they are.
ResetKeepsSensors ==
    /\ ports' = NoPorts
    /\ sensors' = sensors
    /\ Commit([World EXCEPT
                 !.objs = [h \in DOMAIN @ |->
                             [@[h] EXCEPT !.resetDuring =
                                 IF \E t \in timers : t.h = h
                                 THEN (CHOOSE t \in timers : t.h = h).cb
                                 ELSE @]],
                 !.spk = [@ EXCEPT !.onConnect = FALSE]],
              NoMotors)

\* DuploTrain.reset, and the same assignments of PoweredUp.disconnectSession.
\* resetDuring records, for the claims, the callback a handle object had
\* scheduled when a reset discarded it.
Reset ==
    /\ ports' = NoPorts
    /\ sensors' = DefaultSensors(fam)
    /\ Commit([World EXCEPT
                 !.objs = [h \in DOMAIN @ |->
                             [@[h] EXCEPT !.resetDuring =
                                 IF \E t \in timers : t.h = h
                                 THEN (CHOOSE t \in timers : t.h = h).cb
                                 ELSE @]],
                 !.spk = IF fam = "Spike"
                         THEN [SpikeReset(World).spk EXCEPT !.onConnect = FALSE]
                         ELSE @],
              NoMotors)

\* PoweredUp.disconnectSession / DuploTrain.disconnect
Disconnect ==
    /\ ble # "null"
    /\ Reset
    /\ ble' = "idle"
    /\ lastOp' = [Op("disconnect") EXCEPT !.before = SessionValues]
    /\ UNCHANGED <<fam, calls, now, stopPending>>

\* The transport loses the link.  DuploTrain handed `reset` to the transport
\* as its reset callback; PoweredUp handed none.
LinkLost ==
    /\ ble = "connected"
    /\ ble' = "idle"
    /\ IF fam \in {"DuploTrain", "Spike"}
       THEN Reset
       ELSE /\ Commit(World, motors)
            /\ UNCHANGED <<ports, sensors>>
    /\ lastOp' = [Op("linkLost") EXCEPT !.before = SessionValues]
    /\ UNCHANGED <<fam, calls, now, stopPending>>

\* ------------------------------------------------------------------------
\* Notifications
\* ------------------------------------------------------------------------
AttachMsg(c, type) == <<15, 0, 4, c, 1, type>>

DetachMsg(c) == <<5, 0, 4, c, 0>>

\* A sensor value notification: PoweredUp reads the port from data[1] and the
\* values from data[2] and data[3], DuploTrain the port from data[3] and the
\* value from data[4].
ValueMsg(f, c, v) ==
    IF f = "PoweredUp" THEN <<5, c, 69, v>> ELSE <<5, 0, 69, c, v>>

OtherMsg == <<5, 0, 1, 0, 0>>

\* The notification frames the hub sends in the model.
Messages(f) ==
    {AttachMsg(c, ty) : c \in ConnectIDs, ty \in AttachTypes(f)}
    \cup {DetachMsg(c) : c \in ConnectIDs}
    \cup {ValueMsg(f, c, v) : c \in ConnectIDs, v \in SensorValues}
    \cup {OtherMsg}

IsMotorType(f, type) ==
    IF f = "PoweredUp"
    THEN type \in {PoweredUpTypes.MOTOR, PoweredUpTypes.TRAIN_MOTOR,
                   PoweredUpTypes.LED_LIGHT}
    ELSE type = DuploTrainTypes.MOTOR

\* DuploTrain._sensorMode; Null stands for null.
SensorMode(type) ==
    IF type = DuploTrainTypes.SPEAKER THEN 1
    ELSE IF type = DuploTrainTypes.COLOR THEN 0
    ELSE Null

\* The input-format command DuploTrain._registerSensorOrMotor builds.
SensorConfigFrame(connectID, mode) == <<10, 0, 65, connectID, mode, 1, 0, 0, 0, 1>>

PortType(c) == IF c \in DOMAIN ports THEN ports[c] ELSE Null

\* _clearPort that leaves the sensor values as they are.
ClearPortKeepsValues(connectID) ==
    /\ UNCHANGED sensors
    /\ ports' = [c \in DOMAIN ports \ {connectID} |-> ports[c]]
    /\ Commit(World, [motors EXCEPT ![connectID] = Null])

\* _clearPort
ClearPort(connectID) ==
    LET type == PortType(connectID)
    IN /\ sensors' =
            IF fam = "PoweredUp"
            THEN LET s1 == IF type = PoweredUpTypes.TILT
                           THEN [sensors EXCEPT !.tiltX = 0, !.tiltY = 0]
                           ELSE sensors
                 IN IF type = PoweredUpTypes.DISTANCE
                    THEN [s1 EXCEPT !.distance = 0]
                    ELSE s1
            ELSE IF type = DuploTrainTypes.COLOR
                 THEN [sensors EXCEPT !.color = -1]
                 ELSE sensors
       /\ ports' = [c \in DOMAIN ports \ {connectID} |-> ports[c]]
       /\ Commit(World, [motors EXCEPT ![connectID] = Null])

\* _registerSensorOrMotor
RegisterSensorOrMotor(connectID, type) ==
    /\ ports' = [c \in DOMAIN ports \cup {connectID} |->
                    IF c = connectID THEN type ELSE ports[c]]
    /\ UNCHANGED sensors
    /\ IF IsMotorType(fam, type)
       THEN LET W == World
                h == NewHandleId(W)
                m == [motors EXCEPT ![connectID] = h]
                W1 == [W EXCEPT !.objs = [x \in DOMAIN W.objs \cup {h} |->
                                    IF x = h THEN NewMotor(connectID) ELSE W.objs[x]]]
            IN Commit(W1, m)
       ELSE IF fam = "DuploTrain" /\ SensorMode(type) # Null
            THEN LET W == World
                     t == [id |-> NewTimeoutId(W), h |-> Null, cb |-> "sensorConfig",
                           due |-> now + SensorConfigDelay,
                           arg |-> SensorConfigFrame(connectID, SensorMode(type))]
                 IN Commit([W EXCEPT !.timers = @ \cup {t}], motors)
            ELSE Commit(World, motors)

\* The 0x45 branch of _onMessage: an incoming sensor value.
SensorValueUpdate(data) ==
    /\ sensors' =
        IF fam = "PoweredUp"
        THEN LET type == PortType(At(data, 1))
                 s1 == IF type = PoweredUpTypes.DISTANCE
                       THEN [sensors EXCEPT !.distance = At(data, 2)]
                       ELSE sensors
             IN IF type = PoweredUpTypes.TILT
                THEN [s1 EXCEPT !.tiltX = At(data, 2), !.tiltY = At(data, 3)]
                ELSE s1
        ELSE IF PortType(At(data, 3)) = DuploTrainTypes.COLOR
             THEN [sensors EXCEPT !.color = At(data, 4)]
             ELSE sensors
    /\ UNCHANGED ports
    /\ Commit(World, motors)

\* _onMessage.  The handler tests nothing about the session; _onConnect
\* subscribes it with startNotifications, so the specifications let a
\* notification arrive while the link is up.
OnMessage(data) ==
    /\ IF At(data, 2) = 4
       THEN IF At(data, 4) = 0
            THEN ClearPort(At(data, 3))
            ELSE RegisterSensorOrMotor(At(data, 3), At(data, 5))
       ELSE IF At(data, 2) = 69
            THEN SensorValueUpdate(data)
            ELSE /\ Commit(World, motors)
                 /\ UNCHANGED <<ports, sensors>>
    /\ lastOp' = [Op("onMessage") EXCEPT
                    !.port = At(data, 3), !.args = data,
                    !.before = <<PortType(At(data, 3)), sensors>>]
    /\ UNCHANGED <<fam, calls, ble, now, stopPending>>

\* ------------------------------------------------------------------------
\* Blocks (Scratch3PoweredUpBlocks / Scratch3DuploTrainBlocks)
\* ------------------------------------------------------------------------
MotorIDs == {MotorID.A, MotorID.B, MotorID.ALL}

MotorDirections == {"this way", "that way", "reverse"}

\* _forEachMotor: the motor indexes a MOTOR_ID names, in call order.
ForEachMotor(f, motorID) ==
    IF f = "DuploTrain" THEN <<0>>
    ELSE IF motorID = MotorID.A THEN <<0>>
    ELSE IF motorID = MotorID.B THEN <<1>>
    ELSE IF motorID = MotorID.ALL THEN <<0, 1>>
    ELSE <<>>

\* The callback of _forEachMotor applied to each index that holds a motor.
Each(W, idxs, F(_, _)) ==
    LET step(Wc, k) ==
            IF k <= Len(idxs) /\ motors[idxs[k]] # Null
            THEN F(Wc, motors[idxs[k]])
            ELSE Wc
    IN step(step(W, 1), 2)

DurationMS(seconds) == MathUtilClamp(seconds * 1000, 0, 15000)

\* A block ran and left the world W.
Block(name, args, W) ==
    /\ Commit(W, motors)
    /\ lastOp' = [Op(name) EXCEPT !.args = args, !.cleared = W.cleared,
                                  !.ret = W.ret]
    /\ UNCHANGED <<fam, ble, ports, sensors, now, stopPending>>

\* A script runs one more block, of at most `most` in a run.
RunsBlock(most) == calls < most /\ calls' = calls + 1

\* The promise of a block: setTimeout(resolve, ms), which the block calls
\* after _forEachMotor only if something was written.
PacedOnWrite(W, ms) ==
    IF W.out = <<>> THEN W
    ELSE [W EXCEPT
            !.timers = @ \cup {[id |-> NewTimeoutId(W), h |-> Null,
                                cb |-> "resolve", due |-> now + ms,
                                arg |-> <<ms>>]},
            !.ret = "pending"]

\* The promise a block returns: new Promise(resolve => ... setTimeout(resolve,
\* ms)), pending until that timer runs.  arg is the delay given to setTimeout.
Paced(W, ms) ==
    [W EXCEPT
       !.timers = @ \cup {[id |-> NewTimeoutId(W), h |-> Null, cb |-> "resolve",
                           due |-> now + ms, arg |-> <<ms>>]},
       !.ret = "pending"]

\* motorOnFor: the motors are driven, then the promise the block returns
\* schedules its own resolution.
MotorOnFor(motorID, seconds) ==
    Block("motorOnFor", <<motorID, seconds>>,
          Paced(Each(World, ForEachMotor(fam, motorID),
                     LAMBDA W, h : SetMotorOnFor(W, h, DurationMS(seconds))),
                DurationMS(seconds)))

\* startMotorPowerFor
StartMotorPowerFor(motorID, power, seconds) ==
    Block("startMotorPowerFor", <<motorID, seconds, power>>,
          Paced(Each(World, ForEachMotor(fam, motorID),
                     LAMBDA W, h :
                       SetMotorOnFor(
                          [W EXCEPT !.objs[h].power =
                              PowerSetter(MathUtilClamp(power, -100, 100))],
                          h, DurationMS(seconds))),
                DurationMS(seconds)))

\* motorOn: the motors are switched on, then the block returns a promise
\* that resolves after the settle interval.
MotorOn(motorID) ==
    Block("motorOn", <<motorID>>,
          Paced(Each(World, ForEachMotor(fam, motorID),
                     LAMBDA W, h : SetMotorOn(W, h)),
                BLESendInterval))

\* motorOff
MotorOff(motorID) ==
    Block("motorOff", <<motorID>>,
          Paced(Each(World, ForEachMotor(fam, motorID),
                     LAMBDA W, h : SetMotorOff(W, h, TRUE)),
                BLESendInterval))

\* startMotorPower
StartMotorPower(motorID, power) ==
    Block("startMotorPower", <<motorID, power>>,
          Paced(Each(World, ForEachMotor(fam, motorID),
                     LAMBDA W, h :
                       SetMotorOn(
                          [W EXCEPT !.objs[h].power =
                              PowerSetter(MathUtilClamp(power, -100, 100))], h)),
                BLESendInterval))

\* The body of setMotorDirection for one motor.
SetDirectionOf(W, h, dir) ==
    LET d == IF dir = "this way" THEN DirectionSetter(1)
             ELSE IF dir = "that way" THEN DirectionSetter(-1)
             ELSE IF dir = "reverse" THEN DirectionSetter(-W.objs[h].direction)
             ELSE W.objs[h].direction
        W1 == [W EXCEPT !.objs[h].direction = d]
        m == W1.objs[h]
    IN IF m.isOn
       THEN IF m.pendingTimeoutDelay # Null /\ m.pendingTimeoutDelay # 0
            THEN SetMotorOnFor(W1, h,
                    m.pendingTimeoutStartTime + m.pendingTimeoutDelay - now)
            ELSE SetMotorOn(W1, h)
       ELSE W1

\* setMotorDirection
SetMotorDirection(motorID, dir) ==
    Block("setMotorDirection", <<motorID>>,
          Paced(Each(World, ForEachMotor(fam, motorID),
                     LAMBDA W, h : SetDirectionOf(W, h, dir)),
                BLESendInterval))

\* The power setter of the motor handle at a port, called on its own.
SetPower(c, value) ==
    /\ motors[c] # Null
    /\ Commit([World EXCEPT !.objs[motors[c]].power = PowerSetter(value)], motors)
    /\ lastOp' = [Op("setPower") EXCEPT !.args = <<c, value>>]
    /\ UNCHANGED <<fam, calls, ble, ports, sensors, now, stopPending>>

\* ------------------------------------------------------------------------
\* LED, tone and sound: the session methods, which return the promise of
\* their send, and the blocks that call them.
\* ------------------------------------------------------------------------
\* allColors of the DuploTrain file
AllColors ==
    <<"black", "pink", "purple", "blue", "light blue", "light green", "green",
      "yellow", "orange", "red", "white">>

\* allColors.indexOf(color), or Cast.toNumber(color) when the name is none of
\* them: 0 for a name that is not a number.
ColorIndex(color) ==
    IF \E k \in 1..Len(AllColors) : AllColors[k] = color
    THEN (CHOOSE k \in 1..Len(AllColors) : AllColors[k] = color) - 1
    ELSE 0

\* The command of setLED: PoweredUp writes the three bytes of a 24-bit RGB
\* value, DuploTrain the index of a colour name.
LedFrame(f, colour) ==
    IF f = "PoweredUp"
    THEN <<PoweredUpConnectIDs.LED, PoweredUpCommands.WRITE_RGB, 3,
           (colour \div 65536) % 256, (colour \div 256) % 256, colour % 256>>
    ELSE <<8, 0, 129, DuploTrainConnectIDs.LED, 17, 81, 0,
           ToUint8(ColorIndex(colour))>>

\* The command of PoweredUp.playTone
ToneFrame(tone, milliseconds) ==
    <<PoweredUpConnectIDs.PIEZO, PoweredUpCommands.PLAY_TONE, 4,
      ToUint8(tone), ToUint8(tone \div 256),
      ToUint8(milliseconds), ToUint8(milliseconds \div 256)>>

\* DuploTrain._soundIndex, or Cast.toNumber(sound) when it gives null: 0 for
\* a name that is not a number.
SoundIndex(sound) ==
    IF sound = "brake" THEN 3
    ELSE IF sound = "departure" THEN 5
    ELSE IF sound = "refill" THEN 7
    ELSE IF sound = "horn" THEN 9
    ELSE IF sound = "steam" THEN 10
    ELSE 0

\* The command of DuploTrain.playSound
SoundFrame(sound) ==
    <<8, 0, 129, DuploTrainConnectIDs.SPEAKER, 17, 81, 1,
      ToUint8(SoundIndex(sound))>>

\* A caller got the promise of the send that left the world W.
Called(name, args, W) ==
    /\ Commit(W, motors)
    /\ lastOp' = [Op(name) EXCEPT !.args = args, !.ret = W.ret]
    /\ UNCHANGED <<fam, calls, ble, ports, sensors, now, stopPending>>

\* PoweredUp.setLED(rgb) / DuploTrain.setLED(color)
SetLED(colour) ==
    /\ fam \in Families
    /\ Called("setLED", <<colour>>, Send(World, LedFrame(fam, colour), TRUE))

\* PoweredUp.stopLED
StopLED ==
    /\ fam = "PoweredUp"
    /\ Called("stopLED", <<>>, Send(World, LedFrame(fam, 0), TRUE))

\* PoweredUp.playTone
PlayTone(tone, milliseconds) ==
    /\ fam = "PoweredUp"
    /\ Called("playTone", <<tone, milliseconds>>,
              Send(World, ToneFrame(tone, milliseconds), TRUE))

\* DuploTrain.playSound
PlaySound(sound) ==
    /\ fam = "DuploTrain"
    /\ Called("playSound", <<sound>>, Send(World, SoundFrame(sound), TRUE))

\* Scratch3PoweredUpBlocks.setLightHue; rgbDecimal is the value
\* color.rgbToDecimal(color.hsvToRgb(...)) gave for the hue.
SetLightHue(hue, rgbDecimal) ==
    /\ fam = "PoweredUp"
    /\ Block("setLightHue", <<hue, rgbDecimal>>,
             Paced(Send(World, LedFrame(fam, rgbDecimal), TRUE),
                   BLESendInterval))

\* The whole hertz of 440 * Math.pow(2, (n - 69) / 12) for the notes
\* n = 25 .. 125 (entry n - 24): the frequencies of the tempered scale are
\* not whole numbers, and the typed array of a tone command keeps the whole
\* part only.
WholeHertz ==
    <<
      34, 36, 38, 41, 43, 46, 48, 51, 55, 58,
      61, 65, 69, 73, 77, 82, 87, 92, 97, 103,
      110, 116, 123, 130, 138, 146, 155, 164, 174, 184,
      195, 207, 220, 233, 246, 261, 277, 293, 311, 329,
      349, 369, 391, 415, 440, 466, 493, 523, 554, 587,
      622, 659, 698, 739, 783, 830, 880, 932, 987, 1046,
      1108, 1174, 1244, 1318, 1396, 1479, 1567, 1661, 1760, 1864,
      1975, 2093, 2217, 2349, 2489, 2637, 2793, 2959, 3135, 3322,
      3520, 3729, 3951, 4186, 4434, 4698, 4978, 5274, 5587, 5919,
      6271, 6644, 7040, 7458, 7902, 8372, 8869, 9397, 9956, 10548,
      11175>>

\* _noteToTone, 440 * 2^((midiNote - 69) / 12), in whole hertz.
NoteToTone(midiNote) == WholeHertz[midiNote - 24]

\* Scratch3PoweredUpBlocks.playNoteFor: a duration of 0 returns at once
\* without a promise.
PlayNoteFor(note, seconds) ==
    /\ fam = "PoweredUp"
    /\ LET durationMS == MathUtilClamp(seconds * 1000, 0, 3000)
       IN Block("playNoteFor", <<note, seconds>>,
                IF durationMS = 0 THEN World
                ELSE Paced(Send(World,
                                ToneFrame(NoteToTone(MathUtilClamp(note, 25, 125)),
                                          durationMS),
                                TRUE),
                           durationMS))

\* Scratch3DuploTrainBlocks.setLEDColor
SetLEDColor(color) ==
    /\ fam = "DuploTrain"
    /\ Block("setLEDColor", <<color>>,
             Paced(Send(World, LedFrame(fam, color), TRUE), BLESendInterval))

\* Scratch3DuploTrainBlocks.playSound
BlockPlaySound(sound) ==
    /\ fam = "DuploTrain"
    /\ Block("playSoundBlock", <<sound>>,
             Paced(Send(World, SoundFrame(sound), TRUE), BLESendInterval))

\* Scratch3SpikeBlocks._forEachMotor
SpikeForEachMotor(motorID) == IF motorID \in 0..3 THEN <<motorID>> ELSE <<>>

\* Scratch3SpikeBlocks.motorSetPower; Spike.motor(index) is _motors[index].
SpikeMotorSetPower(port, power) ==
    /\ fam = "Spike"
    /\ LET idxs == SpikeForEachMotor(port)
           W == IF idxs # <<>> /\ spk.motors[idxs[1] + 1] # Null
                THEN [World EXCEPT !.spk.ev3.power = MathUtilClamp(power, 0, 100)]
                ELSE World
       IN /\ Commit(W, motors)
          /\ lastOp' = [Op("motorSetPower") EXCEPT !.args = <<port, power>>]
    /\ UNCHANGED <<fam, calls, ble, ports, sensors, now, stopPending>>

\* ------------------------------------------------------------------------
\* PROJECT_STOP_ALL
\* ------------------------------------------------------------------------
\* stopTone's command
StopToneFrame == <<PoweredUpConnectIDs.PIEZO, PoweredUpCommands.STOP_TONE>>

\* stopAllMotors that switches the motors off through the rate limiter.
StopAllMotorsLimited(W) ==
    Each(W, <<0, 1>>, LAMBDA Wc, h : SetMotorOff(Wc, h, TRUE))

\* stopAllMotors: forEach over _motors in index order.
StopAllMotors(W) ==
    Each(W, <<0, 1>>, LAMBDA Wc, h : SetMotorOff(Wc, h, FALSE))

\* _stopAll / stopAll.  PoweredUp chains stopAllMotors on the promise of the
\* stop-tone write; DuploTrain calls stopAllMotors in the handler; the body
\* of Spike.stopAll is commented out.
StopAll ==
    /\ IF ~IsConnected \/ fam = "Spike"
       THEN /\ Commit(World, motors)
            /\ UNCHANGED stopPending
       ELSE IF fam = "PoweredUp"
            THEN /\ stopPending < MaxPending
                 /\ Commit(Send(World, StopToneFrame, FALSE), motors)
                 /\ stopPending' = stopPending + 1
            ELSE /\ Commit(StopAllMotors(World), motors)
                 /\ UNCHANGED stopPending
    /\ lastOp' = [Op("stopAll") EXCEPT !.before = lim]
    /\ UNCHANGED <<fam, calls, ble, ports, sensors, now>>

\* The transport completes the stop-tone write: the `then` callback of
\* PoweredUp._stopAll runs stopAllMotors.
StopToneWritten ==
    /\ stopPending > 0
    /\ stopPending' = stopPending - 1
    /\ Commit(StopAllMotors(World), motors)
    /\ lastOp' = [Op("stopToneWritten") EXCEPT !.before = lim]
    /\ UNCHANGED <<fam, calls, ble, ports, sensors, now>>

\* ------------------------------------------------------------------------
\* EV3Motor: the motor class of the SPIKE file.  Its commands go through
\* Spike.generateCommand to Spike.send.
\* ------------------------------------------------------------------------
Ev3Encoding == [ONE_BYTE |-> 129, TWO_BYTES |-> 130, FOUR_BYTES |-> 131]

Ev3Command == [DIRECT_COMMAND_REPLY |-> 0, DIRECT_COMMAND_NO_REPLY |-> 128]

Ev3Opcode ==
    [OPOUTPUT_TIME_SPEED |-> 175, OPOUTPUT_STOP |-> 163, OPSOUND |-> 148,
     OPSOUND_CMD_TONE |-> 1]

Ev3Args == [LAYER |-> 0, COAST |-> 0, BRAKE |-> 1, RAMP |-> 50]

\* Spike.send: a stub that logs a trace.
SpikeSend(W, message, useLimiter) == [W EXCEPT !.traced = Append(@, message)]

\* JavaScript's `x >> 8 && 0xFF`: 0 when x >> 8 is 0, else 0xFF.
ShiftAndAnd(x) == IF x \div 256 = 0 THEN 0 ELSE 255

\* Spike.generateCommand
GenerateCommand(type, byteCommands, allocation) ==
    LET len == (7 + Len(byteCommands)) - 2
    IN <<len % 256, ShiftAndAnd(len), 0, 0, type,
         allocation % 256, ShiftAndAnd(allocation)>> \o byteCommands

\* EV3Motor._portMask
PortMask(port) == 2 ^ port

\* EV3Motor._runValues
RunValues(run) ==
    IF run < 32767
    THEN <<Ev3Encoding.TWO_BYTES, run % 256, (run \div 256) % 256>>
    ELSE <<Ev3Encoding.FOUR_BYTES, run % 256, (run \div 256) % 256,
           (run \div 65536) % 256, (run \div 16777216) % 256>>

\* EV3Motor.coast
Coast(W) ==
    IF W.spk.ev3.power = 0 THEN W
    ELSE SpikeSend(W,
            GenerateCommand(Ev3Command.DIRECT_COMMAND_NO_REPLY,
                <<Ev3Opcode.OPOUTPUT_STOP, Ev3Args.LAYER,
                  PortMask(W.spk.ev3.index), Ev3Args.COAST>>, 0),
            FALSE)

\* EV3Motor.coastAfter; uid() gives an id never given before, and a negative
\* setTimeout delay counts as 0.
CoastAfter(W, time) ==
    IF W.spk.ev3.power = 0 THEN W
    ELSE LET commandId == W.spk.ev3.nuid + 1
         IN [W EXCEPT
               !.spk.ev3.nuid = commandId,
               !.spk.ev3.commandID = commandId,
               !.timers = @ \cup
                   {[id |-> NewTimeoutId(W), h |-> Null, cb |-> "coast",
                     due |-> now + Max2(0, time + W.spk.ev3.coastDelay),
                     arg |-> <<commandId>>]}]

\* A timeout function of coastAfter that coasts whatever command is the
\* newest.
CoastTimeoutAnyCommand(W, commandId) ==
    [Coast(W) EXCEPT !.spk.ev3.commandID = Null]

\* The timeout function of coastAfter.
CoastTimeout(W, commandId) ==
    IF W.spk.ev3.commandID = commandId
    THEN [Coast(W) EXCEPT !.spk.ev3.commandID = Null]
    ELSE W

\* The direction/speed value of turnOnFor that does not negate the duration
\* together with a negative speed.
DirValueNoFlip(speed, milliseconds) ==
    LET sp == IF speed < 0 THEN -speed ELSE speed
    IN IF milliseconds < 0 THEN 256 - sp ELSE sp

\* The value turnOnFor calls `dir`: a negative speed is made positive and
\* the duration negated; a negative duration then gives 0x100 - speed.
DirValue(speed, milliseconds) ==
    LET sp == IF speed < 0 THEN -speed ELSE speed
        n  == IF speed < 0 THEN -milliseconds ELSE milliseconds
    IN IF n < 0 THEN 256 - sp ELSE sp

\* turnOnFor giving a short run two equal ramps of floor(n / 2).
TurnOnForEqualRamps(W, milliseconds) ==
    IF W.spk.ev3.power = 0 THEN W
    ELSE LET port  == PortMask(W.spk.ev3.index)
             speed == W.spk.ev3.power * W.spk.ev3.direction
             ramp  == Ev3Args.RAMP
             dir   == DirValue(speed, milliseconds)
             n     == IF milliseconds < 0 THEN -milliseconds ELSE milliseconds
             short == n - (ramp * 2) < 0
             rampup   == IF short THEN n \div 2 ELSE ramp
             run      == IF short THEN 0 ELSE n - (ramp * 2)
             rampdown == IF short THEN n \div 2 ELSE ramp
             byteCommand ==
                 <<Ev3Opcode.OPOUTPUT_TIME_SPEED, Ev3Args.LAYER, port,
                   Ev3Encoding.ONE_BYTE, dir % 256,
                   Ev3Encoding.ONE_BYTE, rampup>>
                 \o RunValues(run)
                 \o <<Ev3Encoding.ONE_BYTE, rampdown, Ev3Args.BRAKE>>
             cmd == GenerateCommand(Ev3Command.DIRECT_COMMAND_NO_REPLY,
                                    byteCommand, 0)
         IN CoastAfter(SpikeSend(W, cmd, TRUE), milliseconds)

\* EV3Motor.turnOnFor
TurnOnFor(W, milliseconds) ==
    IF W.spk.ev3.power = 0 THEN W
    ELSE LET port  == PortMask(W.spk.ev3.index)
             speed == W.spk.ev3.power * W.spk.ev3.direction
             ramp  == Ev3Args.RAMP
             dir   == DirValue(speed, milliseconds)
             n     == IF milliseconds < 0 THEN -milliseconds ELSE milliseconds
             short == n - (ramp * 2) < 0
             rampup   == IF short THEN n \div 2 ELSE ramp
             run      == IF short THEN 0 ELSE n - (ramp * 2)
             rampdown == IF short THEN n - rampup ELSE ramp
             byteCommand ==
                 <<Ev3Opcode.OPOUTPUT_TIME_SPEED, Ev3Args.LAYER, port,
                   Ev3Encoding.ONE_BYTE, dir % 256,
                   Ev3Encoding.ONE_BYTE, rampup>>
                 \o RunValues(run)
                 \o <<Ev3Encoding.ONE_BYTE, rampdown, Ev3Args.BRAKE>>
             cmd == GenerateCommand(Ev3Command.DIRECT_COMMAND_NO_REPLY,
                                    byteCommand, 0)
         IN CoastAfter(SpikeSend(W, cmd, TRUE), milliseconds)

\* A caller of turnOnFor.
EV3TurnOnFor(milliseconds) ==
    /\ LET W == TurnOnFor(World, milliseconds)
       IN /\ Commit(W, motors)
          /\ lastOp' = [Op("turnOnFor") EXCEPT
                          !.args = <<milliseconds>>, !.before = spk.ev3,
                          !.traced = W.traced]
    /\ UNCHANGED <<fam, calls, ble, ports, sensors, now, stopPending>>

\* The power setter of EV3Motor.
EV3SetPower(value) ==
    /\ Commit([World EXCEPT !.spk.ev3.power = value], motors)
    /\ lastOp' = [Op("ev3SetPower") EXCEPT !.args = <<value>>]
    /\ UNCHANGED <<fam, calls, ble, ports, sensors, now, stopPending>>

\* The direction setter of EV3Motor.
EV3SetDirection(value) ==
    /\ Commit([World EXCEPT !.spk.ev3.direction = IF value < 0 THEN -1 ELSE 1],
              motors)
    /\ lastOp' = [Op("ev3SetDirection") EXCEPT !.args = <<value>>]
    /\ UNCHANGED <<fam, calls, ble, ports, sensors, now, stopPending>>

\* The position setter of EV3Motor: the signed 32-bit value of four bytes,
\* least significant first.  The sum of the four terms is above 0x7fffffff,
\* and 2^32 is subtracted from it, exactly when the last byte is 128 or
\* more; the subtraction is done on that byte, which keeps every
\* intermediate value within 32 bits.
EV3SetPosition(array) ==
    /\ LET low == array[1] + (array[2] * 256) + (array[3] * 256 * 256)
           high == IF array[4] > 127 THEN array[4] - 256 ELSE array[4]
       IN Commit([World EXCEPT !.spk.ev3.position =
                     low + (high * 256 * 256 * 256)],
                 motors)
    /\ lastOp' = [Op("ev3SetPosition") EXCEPT !.args = array]
    /\ UNCHANGED <<fam, calls, ble, ports, sensors, now, stopPending>>

\* Scratch3SpikeBlocks.motorTurnClockwise with the promise it returns;
\* Spike.motor(index) is _motors[index], which holds no motor.
SpikeMotorTurnClockwise(port, seconds) ==
    /\ fam = "Spike"
    /\ LET idxs == SpikeForEachMotor(port)
           W == Paced(IF idxs # <<>> /\ spk.motors[idxs[1] + 1] # Null
                      THEN TurnOnFor([World EXCEPT !.spk.ev3.direction = 1],
                                     DurationMS(seconds))
                      ELSE World,
                      DurationMS(seconds))
       IN /\ Commit(W, motors)
          /\ lastOp' = [Op("motorTurnClockwise") EXCEPT
                          !.args = <<port, seconds>>, !.ret = W.ret,
                          !.traced = W.traced]
    /\ UNCHANGED <<fam, calls, ble, ports, sensors, now, stopPending>>

\* Scratch3SpikeBlocks.motorTurnCounterClockwise
SpikeMotorTurnCounterClockwise(port, seconds) ==
    /\ fam = "Spike"
    /\ LET idxs == SpikeForEachMotor(port)
           W == Paced(IF idxs # <<>> /\ spk.motors[idxs[1] + 1] # Null
                      THEN TurnOnFor([World EXCEPT !.spk.ev3.direction = -1],
                                     DurationMS(seconds))
                      ELSE World,
                      DurationMS(seconds))
       IN /\ Commit(W, motors)
          /\ lastOp' = [Op("motorTurnCounterClockwise") EXCEPT
                          !.args = <<port, seconds>>, !.ret = W.ret,
                          !.traced = W.traced]
    /\ UNCHANGED <<fam, calls, ble, ports, sensors, now, stopPending>>

\* Spike.beep: the tone command, given to Spike.send.
SpikeBeep(W, freq, time) ==
    SpikeSend(W,
              GenerateCommand(Ev3Command.DIRECT_COMMAND_NO_REPLY,
                              <<Ev3Opcode.OPSOUND, Ev3Opcode.OPSOUND_CMD_TONE,
                                Ev3Encoding.ONE_BYTE, 2,
                                Ev3Encoding.TWO_BYTES, freq, freq \div 256,
                                Ev3Encoding.TWO_BYTES, time, time \div 256>>,
                              0),
              TRUE)

\* The frequency of beep, Math.pow(2, (note - 69 + 12) / 12) * 440, in
\* whole hertz: the tone one octave above _noteToTone's.
Frequency(note) == WholeHertz[(note + 12) - 24]

\* Scratch3SpikeBlocks.beep: a time of 0 returns at once without a promise;
\* otherwise the tone is sent and the promise resolves after the time.
Beep(note, seconds) ==
    /\ fam = "Spike"
    /\ LET time == MathUtilClamp(seconds * 1000, 0, 3000)
           W == IF time = 0 THEN World
                ELSE Paced(SpikeBeep(World,
                                     Frequency(MathUtilClamp(note, 47, 99)),
                                     time),
                           time)
       IN /\ Commit(W, motors)
          /\ lastOp' = [Op("beep") EXCEPT
                          !.args = <<note, seconds>>, !.ret = W.ret,
                          !.traced = W.traced]
    /\ UNCHANGED <<fam, calls, ble, ports, sensors, now, stopPending>>

\* ------------------------------------------------------------------------
\* Timers and the clock
\* ------------------------------------------------------------------------
\* The function setTimeout was given in _setNewTimeout, the sensor
\* configuration send DuploTrain defers, the timeout of coastAfter, and the
\* resolve function of a timed block's promise.
TimerBody(W, t) ==
    IF t.cb = "resolve" THEN W
    ELSE IF t.cb = "sensorConfig" THEN Send(W, t.arg, TRUE)
    ELSE IF t.cb = "coast" THEN CoastTimeout(W, t.arg[1])
    ELSE LET W1 == IF W.objs[t.h].pendingTimeoutId = t.id
                   THEN [W EXCEPT !.objs[t.h].pendingTimeoutId = Null]
                   ELSE W
         IN IF t.cb = "startBraking" THEN StartBraking(W1, t.h)
            ELSE SetMotorOff(W1, t.h, TRUE)

TimerFires(t) ==
    /\ t.due <= now
    /\ LET W == TimerBody([World EXCEPT !.timers = @ \ {t}], t)
       IN /\ Commit(W, motors)
          /\ lastOp' = [Op("timer") EXCEPT
                          !.port = IF t.h = Null THEN At(t.arg, 3)
                                   ELSE objs[t.h].index,
                          !.cb = t.cb,
                          !.args = IF t.h = Null THEN <<>>
                                   ELSE <<objs[t.h].resetDuring>>,
                          !.live = IF t.h = Null THEN TRUE
                                   ELSE motors[objs[t.h].index] = t.h,
                          !.cleared = W.cleared,
                          !.traced = W.traced]
    /\ UNCHANGED <<fam, calls, ble, ports, sensors, now, stopPending>>

\* Time passes up to the next scheduled timer, at most to the next whole
\* Tick.
Advance ==
    /\ \A t \in timers : t.due > now
    /\ now' = Min({t.due : t \in timers} \cup {((now \div Tick) + 1) * Tick})
    /\ now' <= MaxTime
    /\ out' = <<>>
    /\ lastOp' = Op("advance")
    /\ UNCHANGED <<fam, calls, ble, ports, motors, sensors, objs, timers, lim, stopPending, spk, sent>>

\* ------------------------------------------------------------------------
\* Specification of the motor timing state machine: one motor port of a
\* PoweredUp or DuploTrain session and scripts of up to MaxDeep motor
\* blocks (SpecLife covers disconnects and discarded handles).
\* ------------------------------------------------------------------------
Init ==
    /\ fam \in Families
    /\ ble = "null"
    /\ ports = NoPorts
    /\ motors = NoMotors
    /\ sensors = DefaultSensors(fam)
    /\ objs = [h \in {} |-> NewMotor(0)]
    /\ timers = {}
    /\ lim = NewRateLimiter(BLESendRateMax)
    /\ now = 0
    /\ stopPending = 0
    /\ spk = NewSpike
    /\ sent = [calls |-> 0, writes |-> 0]
    /\ calls = 0
    /\ out = <<>>
    /\ lastOp = Op("init")

\* The motor attach and detach notifications of port 0.
MotorMessages(f) ==
    {AttachMsg(0, IF f = "PoweredUp" THEN PoweredUpTypes.MOTOR
                  ELSE DuploTrainTypes.MOTOR),
     DetachMsg(0)}

\* The motor attach notifications of both ports.
MotorAttachMessages(f) ==
    {AttachMsg(c, IF f = "PoweredUp" THEN PoweredUpTypes.MOTOR
                  ELSE DuploTrainTypes.MOTOR) : c \in ConnectIDs}

\* The limited sends counted in the limiter's window at this instant.
WindowCount == IF now - lim.start >= RateWindowMs THEN 0 ELSE lim.count

\* The promises of timed blocks that have not resolved yet.
Promises == {t \in timers : t.cb = "resolve"}

\* The limited sends of the limiter's current window that it dropped.
Dropped ==
    IF now - lim.start >= RateWindowMs THEN 0 ELSE sent.calls - sent.writes

\* The durations, in seconds, of the timed blocks.
Durations == {0, 1, 2}

\* The session is scanned and connected once and gets one motor, at port A;
\* the scripts run their blocks, which address all ports, at any time from
\* the start on, whatever timers and promises are pending.
Next ==
    \/ ble = "null" /\ Scan
    \/ Connect
    \/ \E data \in MotorMessages(fam) :
            IsConnected /\ motors = NoMotors /\ OnMessage(data)
    \/ \E s \in Durations :
            RunsBlock(MaxDeep) /\ MotorOnFor(MotorID.ALL, s)
    \/ RunsBlock(MaxDeep) /\ MotorOn(MotorID.ALL)
    \/ RunsBlock(MaxDeep) /\ StartMotorPowerFor(MotorID.ALL, 150, 1)
    \/ RunsBlock(MaxDeep) /\ MotorOff(MotorID.ALL)
    \/ \E d \in MotorDirections :
            RunsBlock(MaxDeep) /\ SetMotorDirection(MotorID.ALL, d)
    \/ \E t \in timers : TimerFires(t)
    \/ Advance

Spec == Init /\ [][Next]_vars

\* ------------------------------------------------------------------------
\* Specification of the session lifecycle: handles discarded by a detach, a
\* disconnect or a reset while their timers are scheduled, and the handles
\* registered after them.
\* ------------------------------------------------------------------------
NextLife ==
    \/ Scan
    \/ Connect
    \/ Disconnect
    \/ LinkLost
    \/ \E data \in MotorMessages(fam) :
            IsConnected /\ OnMessage(data) /\ Cardinality(DOMAIN objs') <= MaxHandles
    \/ RunsBlock(MaxCalls) /\ MotorOnFor(MotorID.ALL, 1)
    \/ RunsBlock(MaxCalls) /\ MotorOn(MotorID.ALL)
    \/ \E t \in timers : TimerFires(t)
    \/ Advance

SpecLife == Init /\ [][NextLife]_vars

\* ------------------------------------------------------------------------
\* Specification of sending and PROJECT_STOP_ALL: the three sessions,
\* connected or not, with motors on both ports; the LED, tone and sound
\* methods and the SPIKE commands send through the limiter until it has
\* refused MaxDropped sends of a window, and stop-all sends past it.  No
\* block runs, so no timer is scheduled and time passes in whole seconds.
\* ------------------------------------------------------------------------
AllFamilies == Families \cup {"Spike"}

SendRateMax(f) == IF f = "Spike" THEN BTSendRateMax ELSE BLESendRateMax

Ids == {"a1b2", "c3d4"}

InitSend ==
    /\ fam \in AllFamilies
    /\ ble = "null"
    /\ ports = NoPorts
    /\ motors = NoMotors
    /\ sensors = DefaultSensors(fam)
    /\ objs = [h \in {} |-> NewMotor(0)]
    /\ timers = {}
    /\ lim = NewRateLimiter(SendRateMax(fam))
    /\ now = 0
    /\ stopPending = 0
    /\ spk = NewSpike
    /\ sent = [calls |-> 0, writes |-> 0]
    /\ calls = 0
    /\ out = <<>>
    /\ lastOp = Op("init")

\* Colour arguments of setLED.
Colours(f) == IF f = "PoweredUp" THEN {16711680} ELSE {"red"}

NextSend ==
    \/ Scan
    \/ Connect
    \/ Disconnect
    \/ LinkLost
    \/ /\ fam \in Families
       /\ \E data \in MotorAttachMessages(fam) :
            IsConnected /\ OnMessage(data) /\ Cardinality(DOMAIN objs') <= MaxHandles
    \/ \E colour \in Colours(fam) : Dropped < MaxDropped /\ SetLED(colour)
    \/ Dropped < MaxDropped /\ StopLED
    \/ Dropped < MaxDropped /\ PlayTone(440, 1000)
    \/ Dropped < MaxDropped /\ PlaySound("horn")
    \/ StopAll
    \/ StopToneWritten
    \/ Dropped < MaxDropped /\ SpikeOnConnectCalled
    \/ \E needsResponse \in BOOLEAN, id \in Ids :
            /\ Dropped < MaxDropped
            /\ needsResponse => spk.nreq < MaxRequests
            /\ SendCommand("scratch.display_clear", needsResponse, id)
    \/ \E id \in {"a1b2", NoId} :
            /\ id # NoId => spk.nreq < MaxRequests
            /\ SendJSONCalled(id, FALSE)
    \/ Advance

SpecSend == InitSend /\ [][NextSend]_vars

\* ------------------------------------------------------------------------
\* Specification of one limiter window: a connected PoweredUp or DuploTrain
\* session on which the LED, tone and sound methods and the blocks that
\* call them send through the limiter, at the instants the promises of the
\* blocks and the clock give, until the limiter refuses.
\* ------------------------------------------------------------------------
NextWindow ==
    \/ ble = "null" /\ Scan
    \/ Connect
    \/ \E colour \in Colours(fam) : Dropped < MaxDropped /\ SetLED(colour)
    \/ Dropped < MaxDropped /\ StopLED
    \/ Dropped < MaxDropped /\ PlayTone(440, 1000)
    \/ Dropped < MaxDropped /\ PlaySound("horn")
    \/ RunsBlock(MaxCalls) /\ SetLightHue(0, 16711680)
    \/ \E seconds \in {0, 1} : RunsBlock(MaxCalls) /\ PlayNoteFor(60, seconds)
    \/ RunsBlock(MaxCalls) /\ SetLEDColor("red")
    \/ RunsBlock(MaxCalls) /\ BlockPlaySound("horn")
    \/ \E t \in timers : TimerFires(t)
    \/ Advance

SpecWindow == Init /\ [][NextWindow]_vars

\* ------------------------------------------------------------------------
\* Specification of sends on sessions that are not connected: the three
\* sessions before the scan, before the connect, after a disconnect and
\* after a link loss.  A motor on port A is driven while the session is
\* connected, so that its handle and its timers send afterwards; the LED,
\* tone and sound methods and the SPIKE commands are called while the
\* session is not connected (SpecWindow and SpecSend call them on connected
\* sessions).
\* ------------------------------------------------------------------------
NextOffline ==
    \/ Scan
    \/ Connect
    \/ Disconnect
    \/ LinkLost
    \/ /\ fam \in Families
       /\ \E data \in MotorMessages(fam) :
            IsConnected /\ OnMessage(data) /\ Cardinality(DOMAIN objs') <= 1
    \/ fam \in Families /\ RunsBlock(MaxSolo) /\ MotorOnFor(MotorID.A, 1)
    \/ fam \in Families /\ RunsBlock(MaxSolo) /\ MotorOn(MotorID.A)
    \/ \E colour \in Colours(fam) : ~IsConnected /\ SetLED(colour)
    \/ ~IsConnected /\ StopLED
    \/ ~IsConnected /\ PlayTone(440, 1000)
    \/ ~IsConnected /\ PlaySound("horn")
    \/ \E needsResponse \in BOOLEAN :
            ~IsConnected /\ SendCommand("scratch.display_clear", needsResponse, "a1b2")
    \/ \E id \in {"a1b2", NoId}, useLimiter \in BOOLEAN :
            ~IsConnected /\ SendJSONCalled(id, useLimiter)
    \/ StopAll
    \/ StopToneWritten
    \/ \E t \in timers : TimerFires(t)
    \/ Advance

SpecOffline == InitSend /\ [][NextOffline]_vars

\* ------------------------------------------------------------------------
\* Specification of the deferred sensor configuration under other traffic:
\* a colour sensor is attached to a port of a DuploTrain session while
\* setLED sends through the limiter.
\* ------------------------------------------------------------------------
NextConfig ==
    \/ ble = "null" /\ Scan
    \/ Connect
    \/ Disconnect
    \/ \E c \in ConnectIDs :
            /\ fam = "DuploTrain" /\ IsConnected
            /\ OnMessage(AttachMsg(c, DuploTrainTypes.COLOR))
            /\ Cardinality(timers') <= MaxPending
    \/ \E colour \in Colours(fam) : Dropped < MaxDropped /\ SetLED(colour)
    \/ \E t \in timers : TimerFires(t)
    \/ Advance

SpecConfig == Init /\ [][NextConfig]_vars

\* ------------------------------------------------------------------------
\* Specification of the port registry: attach, detach and sensor value
\* notifications on both ports of a PoweredUp or DuploTrain session.  A
\* notification that defers a sensor configuration arrives on a whole Tick.
\* ------------------------------------------------------------------------
NextPorts ==
    \/ Scan
    \/ Connect
    \/ Disconnect
    \/ LinkLost
    \/ \E data \in Messages(fam) :
            /\ IsConnected
            /\ OnMessage(data)
            /\ Cardinality(DOMAIN objs') <= MaxHandles
            /\ Cardinality(timers') <= MaxPending
            /\ timers' # timers => now % Tick = 0
    \/ \E t \in timers : TimerFires(t)
    \/ Advance

SpecPorts == Init /\ [][NextPorts]_vars

\* ------------------------------------------------------------------------
\* Specification of the SPIKE session: commands with and without a
\* response, and notifications whose text holds JSON objects, carriage
\* returns and characters that are not JSON, all within one limiter window.
\* ------------------------------------------------------------------------
\* A reply to the request with correlation id i.
Reply(i) == [m |-> Null, p |-> <<>>, i |-> i]

\* A hub status message (m = 0); element 8 of p is the tilt angle.
HubStatus(angle) ==
    [m |-> 0, p |-> <<<<>>, <<>>, <<>>, <<>>, <<>>, <<>>, <<>>, <<>>, angle>>,
     i |-> NoId]

\* An orientation event (m = 4).
OrientationEvent(name) == [m |-> 4, p |-> name, i |-> NoId]

\* The JSON objects the hub sends in the model, by number.
IncomingNumbers == 1..6

Incoming(n) ==
    CASE n = 1 -> Reply("a1b2")
      [] n = 2 -> Reply("c3d4")
      [] n = 3 -> HubStatus(<<10, 20, 30>>)
      [] n = 4 -> HubStatus(<<40, 50, 60>>)
      [] n = 5 -> OrientationEvent("up")
      [] n = 6 -> Reply("toString")

\* The notifications of the model: a shape and the numbers of its objects.
TextSpecs ==
    {<<"one", a, a>> : a \in IncomingNumbers}
    \cup {<<"two", a, b>> : a, b \in IncomingNumbers}
    \cup {<<shape, a, b>> : shape \in {"twoCR", "gap", "joined", "thenJunk"},
                            a \in {1, 3}, b \in {2, 4}}
    \cup {<<"junk", 1, 1>>}

\* The text of a notification of the given shape around the objects a and b.
Text(shape, a, b) ==
    CASE shape = "one"      -> <<Blank, JsonText(a), CR>>
      [] shape = "two"      -> <<JsonText(a), CR, JsonText(b)>>
      [] shape = "twoCR"    -> <<JsonText(a), CR, JsonText(b), CR>>
      [] shape = "gap"      -> <<JsonText(a), CR, CR, JsonText(b)>>
      [] shape = "joined"   -> <<JsonText(a), JsonText(b)>>
      [] shape = "junk"     -> <<Garbage>>
      [] shape = "thenJunk" -> <<JsonText(a), CR, Garbage, CR, JsonText(b)>>

InitSpike == InitSend /\ fam = "Spike"

NextSpike ==
    \/ Scan
    \/ Connect
    \/ sent.calls < MaxBurst /\ SpikeOnConnectCalled
    \/ StopAll
    \/ \E needsResponse \in BOOLEAN, id \in Ids :
            /\ IF needsResponse THEN spk.nreq < MaxRequests
               ELSE sent.calls < MaxBurst
            /\ SendCommand("scratch.display_clear", needsResponse, id)
    \/ \E ts \in TextSpecs :
            IsConnected /\ SpikeOnMessage(Text(ts[1], Incoming(ts[2]), Incoming(ts[3])))

SpecSpike == InitSpike /\ [][NextSpike]_vars

\* ------------------------------------------------------------------------
\* Claims
\* ------------------------------------------------------------------------
\* The motor indexes the block that ran last addressed.
Addressed == {ForEachMotor(fam, lastOp.args[1])[k] :
                k \in 1..Len(ForEachMotor(fam, lastOp.args[1]))}

TimersOf(h) == {t \in timers : t.h = h}

\* C1: after a timed turn-on (setMotorOnFor through motorOnFor or
\* startMotorPowerFor) of a motor, also when it supersedes an earlier timed
\* turn-on whose brake was still pending, exactly one deferred action is
\* scheduled for that motor: startBraking, due the new duration after this
\* call; the superseded brake is no longer scheduled.
C1_OneBrakeAfterOnFor ==
    lastOp.name \in {"motorOnFor", "startMotorPowerFor"} =>
        \A c \in Addressed :
            motors[c] # Null =>
                /\ Cardinality(TimersOf(motors[c])) = 1
                /\ \A t \in TimersOf(motors[c]) :
                      /\ t.cb = "startBraking"
                      /\ t.due = now + DurationMS(lastOp.args[2])
                      /\ objs[motors[c]].pendingTimeoutId = t.id

\* A second timed turn-on, duration 2 s, issued 100 ms after the first one
\* cancelled its pending brake: the only brake left is due 2 s from now.
C1_Witness ==
    /\ lastOp.name = "motorOnFor"
    /\ lastOp.args[2] = 2
    /\ "startBraking" \in lastOp.cleared
    /\ now = BLESendInterval
    /\ IsConnected
    /\ motors[0] # Null
    /\ \A t \in TimersOf(motors[0]) : t.due = now + 2000

\* C2: a brake-settle timer (setMotorOff, scheduled by startBraking) that was
\* pending when a disconnect or reset discarded its handle never writes an
\* off command to its port once a motor has been registered at that port
\* again and turned on.
C2_NoStaleOffAfterReconnect ==
    ~ /\ lastOp.name = "timer"
      /\ lastOp.cb = "setMotorOff"
      /\ lastOp.args = <<"setMotorOff">>
      /\ ~lastOp.live
      /\ motors[lastOp.port] # Null
      /\ objs[motors[lastOp.port]].isOn
      /\ out = <<MotorFrame(lastOp.port, 0)>>

\* The payloads the last handler wrote, as a set.
Written == {out[k] : k \in 1..Len(out)}

\* The motor indexes that hold a handle.
Registered == {c \in ConnectIDs : motors[c] # Null}

\* The LED, tone and sound methods, which return the promise of their send,
\* and the blocks that call one of them.
SenderMethods == {"setLED", "stopLED", "playTone", "playSound"}

SenderBlocks == {"setLightHue", "playNoteFor", "setLEDColor", "playSoundBlock"}

\* The command the method or block that ran last handed to _send.
SentFrame ==
    CASE lastOp.name \in {"setLED", "setLEDColor"} -> LedFrame(fam, lastOp.args[1])
      [] lastOp.name = "stopLED" -> LedFrame(fam, 0)
      [] lastOp.name = "setLightHue" -> LedFrame(fam, lastOp.args[2])
      [] lastOp.name = "playTone" -> ToneFrame(lastOp.args[1], lastOp.args[2])
      [] lastOp.name = "playNoteFor" ->
            ToneFrame(NoteToTone(MathUtilClamp(lastOp.args[1], 25, 125)),
                      MathUtilClamp(lastOp.args[2] * 1000, 0, 3000))
      [] lastOp.name \in {"playSound", "playSoundBlock"} -> SoundFrame(lastOp.args[1])

\* The method or block that ran last called _send.
CalledSend ==
    \/ lastOp.name \in SenderMethods
    \/ lastOp.name \in SenderBlocks \ {"playNoteFor"}
    \/ lastOp.name = "playNoteFor" /\ lastOp.args[2] > 0

\* C3: with a limiter of N sends per window, the limited sends issued on a
\* connected PoweredUp or DuploTrain session within one window, at one
\* instant or spread over the window, are written up to the N-th and
\* dropped from then on: after N+1 calls exactly N were written; every
\* call returned a promise that resolves, the dropped one an
\* already-resolved promise without a write, and nothing is written for it
\* later.
C3_LimiterDropsExtra ==
    fam \in Families =>
        /\ sent.writes = Min2(sent.calls, BLESendRateMax)
        /\ (CalledSend /\ IsConnected) =>
              out = IF sent.calls <= BLESendRateMax THEN <<SentFrame>> ELSE <<>>
        /\ (lastOp.name \in SenderMethods /\ IsConnected) =>
              lastOp.ret = IF sent.calls <= BLESendRateMax THEN "write"
                           ELSE "resolved"
        /\ lastOp.name \in {"timer", "advance"} => out = <<>>

\* The 21st limited send of a window that began 100 ms ago.
C3_Witness ==
    /\ fam \in Families /\ IsConnected
    /\ lastOp.name = "setLED" /\ lastOp.ret = "resolved"
    /\ sent.calls = BLESendRateMax + 1 /\ sent.writes = BLESendRateMax
    /\ lim.start = 0 /\ now = BLESendInterval
    /\ out = <<>>

\* The handler that ran last ran stopAllMotors as part of PROJECT_STOP_ALL on
\* a connected session.
StoppedMotors ==
    /\ fam \in Families
    /\ IsConnected
    /\ \/ fam = "DuploTrain" /\ lastOp.name = "stopAll"
       \/ fam = "PoweredUp" /\ lastOp.name = "stopToneWritten"

C5_StopAllImmediate ==
    (fam \in Families /\ lastOp.name = "stopAll" /\ IsConnected) =>
        \A c \in Registered : MotorFrame(c, 0) \in Written

\* C6: on a connected SPIKE session the handler of PROJECT_STOP_ALL writes a
\* stop command to the transport (at least the stop-sound command).
C6_SpikeStopAllWrites ==
    (fam = "Spike" /\ lastOp.name = "stopAll" /\ IsConnected) => out # <<>>

\* The methods that return the promise of their send to the caller.
PromiseReturned == SenderMethods \cup {"sendCommand", "sendJSON"}

\* C7: on a session that is not connected no send writes to the transport,
\* whoever calls it (the LED, tone and sound methods, the motor blocks and
\* the timers of the motor handles, stop-all and its continuation, Spike's
\* sendCommand and sendJSON with or without the limiter), and the promise
\* the send returns is already resolved.
C7_UnconnectedSendResolves ==
    ~IsConnected =>
        /\ out = <<>>
        /\ lastOp.name \in PromiseReturned => lastOp.ret = "resolved"

\* The brake timer of a motor whose PoweredUp session lost its link runs
\* startBraking on the handle the session still holds.
C7_Witness ==
    /\ fam = "PoweredUp" /\ ~IsConnected
    /\ lastOp.name = "timer" /\ lastOp.cb = "startBraking"
    /\ lastOp.live
    /\ motors[0] # Null
    /\ \E t \in TimersOf(motors[0]) : t.cb = "setMotorOff"
    /\ out = <<>>

\* C8: a detach notification for port c removes the registry entry of c and
\* nulls the motor handle at c; the exposed value of the sensor the port
\* held is back at its default (tilt: tiltX = tiltY = 0, distance: 0,
\* colour: -1), and the other sensor values are as before.
C8_ClearPort ==
    \A c \in ConnectIDs :
        (fam \in Families /\ lastOp.name = "onMessage"
            /\ lastOp.args = DetachMsg(c)) =>
            LET type == lastOp.before[1]
                old  == lastOp.before[2]
            IN /\ c \notin DOMAIN ports
               /\ motors[c] = Null
               /\ fam = "PoweredUp" =>
                    /\ sensors.tiltX = IF type = PoweredUpTypes.TILT THEN 0 ELSE old.tiltX
                    /\ sensors.tiltY = IF type = PoweredUpTypes.TILT THEN 0 ELSE old.tiltY
                    /\ sensors.distance =
                          IF type = PoweredUpTypes.DISTANCE THEN 0 ELSE old.distance
               /\ fam = "DuploTrain" =>
                    sensors.color = IF type = DuploTrainTypes.COLOR THEN -1 ELSE old.color

C8_Witness ==
    /\ fam = "PoweredUp"
    /\ lastOp.name = "onMessage" /\ lastOp.args = DetachMsg(1)
    /\ lastOp.before[1] = PoweredUpTypes.TILT
    /\ lastOp.before[2].tiltX # 0 /\ lastOp.before[2].tiltY # 0
    /\ sensors.tiltX = 0 /\ sensors.tiltY = 0
    /\ 1 \notin DOMAIN ports /\ motors[0] # Null

\* The byte that carries power p: p limited to -100..100, negative values in
\* two's complement.
PowerByte(p) ==
    LET q == IF p > 100 THEN 100 ELSE IF p < -100 THEN -100 ELSE p
    IN IF q < 0 THEN 256 + q ELSE q

\* The power the block that ran last was given.
GivenPower ==
    IF lastOp.name = "startMotorPowerFor" THEN lastOp.args[3] ELSE lastOp.args[2]

\* C9: the power byte of a drive frame is the given power clamped to
\* -100..100 and stored in one byte: the power setter, startMotorPower and
\* startMotorPowerFor store the clamped value, and every drive frame
\* written (by startMotorPower and startMotorPowerFor at once, by the next
\* motorOn or motorOnFor after the power setter) carries the stored value
\* modulo 256; 150 is sent as 100 and -150 as -100 (byte 156).
C9_PowerByte ==
    /\ \A h \in DOMAIN objs : objs[h].power \in -100..100
    /\ lastOp.name = "setPower" =>
          PowerByte(objs[motors[lastOp.args[1]]].power) = PowerByte(lastOp.args[2])
    /\ lastOp.name \in {"startMotorPower", "startMotorPowerFor"} =>
          \A c \in Addressed :
              motors[c] # Null =>
                  /\ PowerByte(objs[motors[c]].power) = PowerByte(GivenPower)
                  /\ \A k \in 1..Len(out) :
                        out[k] = <<8, 0, 129, c, 17, 81, 0, PowerByte(GivenPower)>>
    /\ lastOp.name \in {"motorOn", "motorOnFor"} =>
          \A c \in Addressed :
              motors[c] # Null =>
                  \A k \in 1..Len(out) :
                      out[k] = <<8, 0, 129, c, 17, 81, 0,
                                 PowerByte(objs[motors[c]].power)>>

\* The power setter was given -37, and the next drive frame carries byte
\* 219.
C9_Witness ==
    /\ lastOp.name = "motorOn"
    /\ IsConnected /\ motors[0] # Null
    /\ objs[motors[0]].power = -37
    /\ out = <<<<8, 0, 129, 0, 17, 81, 0, 219>>>>

\* The last notification of the SPIKE session held two JSON objects with a
\* carriage return between them (and possibly one more at the end).
TwoObjects ==
    /\ fam = "Spike" /\ lastOp.name = "spikeOnMessage"
    /\ Len(lastOp.args) \in {3, 4}
    /\ lastOp.args[1].k = "json" /\ lastOp.args[2].k = "cr"
    /\ lastOp.args[3].k = "json"
    /\ Len(lastOp.args) = 4 => lastOp.args[4].k = "cr"

\* The pending requests a reply object resolves in the session sp.
ResolvedBy(sp, response) ==
    IF response.i # NoId /\ response.i \in DOMAIN sp.open
    THEN {sp.open[response.i]}
    ELSE {}

\* C10: a notification with two JSON objects separated by a carriage return
\* dispatches both, in order: the pending requests both name are resolved
\* and their entries removed, other entries stay, and of two hub status
\* messages the second one's angle is the one exposed afterwards.
C10_TwoRepliesBothDispatched ==
    TwoObjects =>
        LET old == lastOp.before
            a   == lastOp.args[1].v
            b   == lastOp.args[3].v
            ids == {a.i, b.i}
        IN /\ spk.resolved =
                 old.resolved \cup ResolvedBy(old, a) \cup ResolvedBy(old, b)
           /\ DOMAIN spk.open = DOMAIN old.open \ ids
           /\ \A i \in DOMAIN spk.open : spk.open[i] = old.open[i]
           /\ b.m = 0 => spk.sensors.angle.yaw = b.p[9][1]
           /\ (a.m = 0 /\ b.m # 0) => spk.sensors.angle.yaw = a.p[9][1]
           /\ (a.m = 4 \/ b.m = 4) =>
                 spk.sensors.orientation = SpikeOrientation.up

\* C11: after the motorOff block (setMotorOff on every addressed motor) no
\* deferred action of an addressed motor remains scheduled, so that no brake
\* frame and no further off frame follow later.
C11_OffCancelsTimer ==
    lastOp.name = "motorOff" =>
        \A c \in Addressed :
            motors[c] # Null => TimersOf(motors[c]) = {}

\* C12: every motor handle has at most one scheduled deferred action, and
\* the one it has is the one its pendingTimeoutId names.
C12_OneTimerPerMotor ==
    \A h \in DOMAIN objs :
        /\ Cardinality(TimersOf(h)) <= 1
        /\ \A t \in TimersOf(h) : objs[h].pendingTimeoutId = t.id

C12_Witness ==
    /\ lastOp.name = "motorOnFor"
    /\ "setMotorOff" \in lastOp.cleared
    /\ now % Tick # 0
    /\ motors[0] # Null
    /\ Cardinality(TimersOf(motors[0])) = 1
    /\ \A t \in TimersOf(motors[0]) : t.cb = "startBraking"

\* The requests sendJSON registered that are still in the pending-request
\* table.
InTable == {spk.open[i] : i \in DOMAIN spk.open}

\* C13: a sendCommand that needs a response never overwrites a pending
\* entry: every request registered so far is either resolved or still in
\* the table under its id.
C13_NoPendingOverwritten ==
    (fam = "Spike" /\ lastOp.name = "sendCommand") =>
        \A n \in 1..spk.nreq : n \in spk.resolved \/ n \in InTable

\* The text of the last SPIKE notification has a fragment, between carriage
\* returns, that JSON.parse rejects.
MalformedFragment ==
    /\ fam = "Spike" /\ lastOp.name = "spikeOnMessage"
    /\ \E k \in 1..Len(Responses(lastOp.args)) :
            ~JsonParses(Responses(lastOp.args)[k])

\* C14: a notification with a fragment that fails to parse is dropped as a
\* whole: the sensor values and the pending-request table are what they
\* were before it, wherever the malformed fragment stands.
C14_MalformedDropped ==
    MalformedFragment =>
        /\ spk.sensors = lastOp.before.sensors
        /\ spk.open = lastOp.before.open
        /\ spk.resolved = lastOp.before.resolved

\* ------------------------------------------------------------------------
\* Specification of one EV3Motor object whose parent is a SPIKE session:
\* its setters, turnOnFor and the coast timeouts, over the clock.
\* ------------------------------------------------------------------------
MaxCommands == 2

EV3Powers == {0, 1, 50, 100}

EV3Durations == {-40000, -500, -60, 60, 500, 40000}

\* Tacho counts as the four bytes of a signed 32-bit value.
PositionBytes == {<<1, 2, 0, 0>>, <<255, 255, 255, 255>>}

InitEV3 == InitSpike

NextEV3 ==
    \/ \E ms \in EV3Durations :
          /\ spk.ev3.nuid < MaxCommands
          /\ EV3TurnOnFor(ms)
    \/ \E p \in EV3Powers : EV3SetPower(p)
    \/ \E array \in PositionBytes :
          /\ spk.ev3.position = NewEV3Motor(0).position
          /\ EV3SetPosition(array)
    \/ \E d \in {-1, 1} : EV3SetDirection(d)
    \/ \E t \in timers : TimerFires(t)
    \/ Advance

SpecEV3 == InitEV3 /\ [][NextEV3]_vars

\* The command turnOnFor builds on an EV3 motor with the given fields.
Encoded(motor, milliseconds) ==
    TurnOnFor([World EXCEPT !.spk.ev3 = motor], milliseconds).traced[1]

\* C15: turnOnFor(-d) on a motor of direction +1 and power 1..100 builds the
\* same command as turnOnFor(d) on that motor with direction -1, and its
\* direction/speed byte is 0x100 - power.
C15_SignsInvertedTogether ==
    (/\ lastOp.name = "turnOnFor"
     /\ lastOp.before.direction = 1
     /\ lastOp.before.power \in 1..100
     /\ lastOp.args[1] < 0) =>
        /\ Len(lastOp.traced) = 1
        /\ lastOp.traced[1] =
              Encoded([lastOp.before EXCEPT !.direction = -1], -lastOp.args[1])
        /\ lastOp.traced[1][12] = 256 - lastOp.before.power

C15_Witness ==
    /\ lastOp.name = "turnOnFor"
    /\ lastOp.before.direction = 1
    /\ lastOp.before.power = 50
    /\ lastOp.args = <<-500>>
    /\ Len(lastOp.traced) = 1
    /\ lastOp.traced[1][12] = 206
    /\ lastOp.traced[1][14] = 50

\* ------------------------------------------------------------------------
\* Specification of disconnect and reset: a session of any family whose
\* registry and sensor values notifications have changed is disconnected
\* by the user or loses its link.
\* ------------------------------------------------------------------------
NextReset ==
    \/ Scan
    \/ Connect
    \/ Disconnect
    \/ LinkLost
    \/ /\ fam \in Families
       /\ \E data \in Messages(fam) :
            /\ IsConnected
            /\ OnMessage(data)
            /\ Cardinality(DOMAIN objs') <= MaxHandles
            /\ Cardinality(timers') <= MaxPending
            /\ timers' # timers => now % Tick = 0
    \/ \E ts \in TextSpecs :
            IsConnected /\ SpikeOnMessage(Text(ts[1], Incoming(ts[2]), Incoming(ts[3])))
    \/ \E t \in timers : TimerFires(t)
    \/ Advance

SpecReset == InitSend /\ [][NextReset]_vars

\* disconnect / disconnectSession ran, or the transport ran the reset
\* callback the session gave it (PoweredUp gives none).
WasReset ==
    \/ lastOp.name = "disconnect"
    \/ lastOp.name = "linkLost" /\ fam # "PoweredUp"

\* C16: after disconnect or reset the port registry is empty, every motor
\* slot is null and every sensor value is at its default: PoweredUp tiltX =
\* tiltY = distance = 0, DuploTrain color = -1, SPIKE distance = brightness
\* = 0, angles 0 and orientation front.
C16_ResetToDefaults ==
    WasReset =>
        /\ DOMAIN ports = {}
        /\ \A k \in DOMAIN motors : motors[k] = Null
        /\ fam = "PoweredUp" =>
              sensors.tiltX = 0 /\ sensors.tiltY = 0 /\ sensors.distance = 0
        /\ fam = "DuploTrain" => sensors.color = -1
        /\ fam = "Spike" =>
              /\ spk.sensors.distance = 0 /\ spk.sensors.brightness = 0
              /\ spk.sensors.angle = [pitch |-> 0, roll |-> 0, yaw |-> 0]
              /\ spk.sensors.orientation = SpikeOrientation.front
              /\ \A k \in DOMAIN spk.motors : spk.motors[k] = Null

C16_Witness ==
    /\ WasReset
    /\ fam = "PoweredUp"
    /\ DOMAIN lastOp.before.ports # {}
    /\ lastOp.before.sensors.distance # 0
    /\ \E k \in DOMAIN lastOp.before.motors : lastOp.before.motors[k] # Null
    /\ sensors.distance = 0
    /\ DOMAIN ports = {}

\* ------------------------------------------------------------------------
\* Specification of SPIKE requests across sessions: requests that need a
\* response, replies, disconnects, link losses and reconnects.
\* ------------------------------------------------------------------------
NextStale ==
    \/ Scan
    \/ Connect
    \/ Disconnect
    \/ LinkLost
    \/ sent.calls < MaxBurst /\ SpikeOnConnectCalled
    \/ \E id \in Ids :
            /\ spk.nreq < MaxRequests
            /\ SendCommand("scratch.display_clear", TRUE, id)
    \/ \E n \in {1, 2} : IsConnected /\ SpikeOnMessage(Text("one", Incoming(n), Incoming(n)))

SpecStale == InitSpike /\ [][NextStale]_vars

\* C17: a request that was pending when the SPIKE session was reset is not
\* resolved by a reply that arrives later and carries its correlation id.
C17_ResetInvalidatesIds ==
    fam = "Spike" => spk.atReset \cap spk.resolved = {}

\* The handler that runs next issues sends with useLimiter false only, on a
\* connected session: PROJECT_STOP_ALL and its stop-tone continuation, and a
\* sendJSON call that passes false.
UnlimitedSends ==
    /\ IsConnected
    /\ IF fam = "Spike" THEN lastOp'.name = "sendJSON"
       ELSE lastOp'.name \in {"stopAll", "stopToneWritten"}

\* The number of sends that handler issues.
IssuedSends ==
    IF (fam = "PoweredUp" /\ lastOp'.name = "stopAll") \/ fam = "Spike"
    THEN 1
    ELSE Cardinality(Registered)

\* C18: a send with useLimiter false on a connected session is written to
\* the transport and does not call okayToSend: the limiter and its window
\* counter stay as they were.
C18_UnlimitedBypasses ==
    [][UnlimitedSends =>
          /\ Len(out') = IssuedSends
          /\ lim' = lim
          /\ sent'.calls = sent.calls]_vars

C18_Witness ==
    /\ fam = "DuploTrain"
    /\ lastOp.name = "stopAll"
    /\ IsConnected
    /\ motors[0] # Null
    /\ WindowCount = BLESendRateMax
    /\ sent.calls > BLESendRateMax
    /\ out = <<MotorFrame(0, 0)>>

\* The notification handled last reported a tilt or distance sensor attached
\* to port c of a PoweredUp session.
SensorAttached(c) ==
    /\ fam = "PoweredUp"
    /\ lastOp.name = "onMessage"
    /\ \E type \in {PoweredUpTypes.TILT, PoweredUpTypes.DISTANCE} :
            lastOp.args = AttachMsg(c, type)

\* C19: handling the attach notification of a tilt or distance sensor on a
\* connected PoweredUp session issues a mode-configuration command for that
\* port: a command is written by the handler.
C19_SensorAttachConfigures ==
    \A c \in ConnectIDs : SensorAttached(c) => out # <<>>

\* The notification handled in this step reports a device of the given type
\* attached to port c of a DuploTrain session.
AttachHandled(c, type) ==
    /\ fam = "DuploTrain"
    /\ lastOp'.name = "onMessage"
    /\ lastOp'.args = AttachMsg(c, type)

\* The timers this step scheduled, and the ones it ran.
Scheduled == timers' \ timers

Ran == timers \ timers'

\* The deferred colour-sensor configuration of port c runs in this step.
ConfigRuns(c) ==
    /\ fam = "DuploTrain"
    /\ lastOp'.name = "timer"
    /\ \E t \in Ran : t.cb = "sensorConfig" /\ t.arg = SensorConfigFrame(c, 0)

\* What the attach handler itself does: a colour sensor schedules one send
\* of the configuration frame 100 ms ahead and writes nothing yet; a motor
\* registers a new handle, schedules nothing and writes nothing.
AttachStep(c) ==
    /\ AttachHandled(c, DuploTrainTypes.COLOR) =>
          /\ Cardinality(Scheduled) = 1
          /\ \A t \in Scheduled :
                /\ t.cb = "sensorConfig"
                /\ t.arg = SensorConfigFrame(c, 0)
                /\ t.due = now + SensorConfigDelay
          /\ out' = <<>>
    /\ AttachHandled(c, DuploTrainTypes.MOTOR) =>
          /\ motors'[c] # Null
          /\ motors'[c] \notin DOMAIN objs
          /\ Scheduled = {}
          /\ out' = <<>>

\* C20: the colour-sensor attach schedules the configuration for 100 ms
\* later, a motor attach registers a handle and configures nothing, and
\* when the 100 ms are over exactly one configuration frame (mode 0,
\* notifications enabled) is written for the port of a session that is
\* still connected.
C20_ConfigWrittenIfConnected ==
    [][\A c \in ConnectIDs :
          /\ AttachStep(c)
          /\ ConfigRuns(c) =>
                /\ \A t \in Ran : t.due = now
                /\ out' = IF IsConnected THEN <<SensorConfigFrame(c, 0)>>
                          ELSE <<>>]_vars

\* The notification handled last held one JSON object that carries a
\* correlation id.
OneReply ==
    /\ fam = "Spike" /\ lastOp.name = "spikeOnMessage"
    /\ Len(lastOp.args) = 3
    /\ lastOp.args[1].k = "sp" /\ lastOp.args[2].k = "json"
    /\ lastOp.args[3].k = "cr"
    /\ lastOp.args[2].v.i # NoId

\* C21: a reply with correlation id i resolves the request registered under
\* i, which was not resolved before, and removes its entry; the other
\* entries are unchanged; a reply whose id has no entry (never registered,
\* or removed by an earlier reply) resolves nothing.  No entry of the table
\* ever names a request that is already resolved.
C21_ReplyResolvesOnce ==
    /\ fam = "Spike" => InTable \cap spk.resolved = {}
    /\ OneReply =>
          LET old == lastOp.before
              i   == lastOp.args[2].v.i
          IN IF i \in DOMAIN old.open
             THEN /\ old.open[i] \notin old.resolved
                  /\ spk.resolved = old.resolved \cup {old.open[i]}
                  /\ DOMAIN spk.open = DOMAIN old.open \ {i}
                  /\ \A j \in DOMAIN spk.open : spk.open[j] = old.open[j]
             ELSE /\ spk.resolved = old.resolved
                  /\ spk.open = old.open

C21_Witness ==
    /\ OneReply
    /\ lastOp.args[2].v.i = "a1b2"
    /\ DOMAIN lastOp.before.open = {"a1b2", "c3d4"}
    /\ DOMAIN spk.open = {"c3d4"}
    /\ spk.resolved = {lastOp.before.open["a1b2"]}

\* ------------------------------------------------------------------------
\* Specification of the motor blocks with every motor id: the ids of the
\* menu and one that is none of them, on sessions of the three families.
\* ------------------------------------------------------------------------
InvalidMotorID == "motor C"

BlockMotorIDs == MotorIDs \cup {InvalidMotorID}

InvalidPort == 4

NextBlocks ==
    \/ Scan
    \/ Connect
    \/ /\ fam \in Families
       /\ \E data \in MotorMessages(fam) :
            IsConnected /\ OnMessage(data) /\ Cardinality(DOMAIN objs') <= 1
    \/ /\ fam \in Families
       /\ RunsBlock(MaxCalls)
       /\ \E id \in BlockMotorIDs :
            \/ MotorOnFor(id, 1)
            \/ MotorOn(id)
            \/ MotorOff(id)
            \/ StartMotorPower(id, 150)
            \/ StartMotorPowerFor(id, 150, 1)
            \/ SetMotorDirection(id, "reverse")
    \/ \E port \in 0..InvalidPort : SpikeMotorSetPower(port, 150)
    \/ \E t \in timers : TimerFires(t)
    \/ Advance

SpecBlocks == InitSend /\ [][NextBlocks]_vars

MotorBlockNames ==
    {"motorOnFor", "motorOn", "motorOff", "startMotorPower",
     "startMotorPowerFor", "setMotorDirection"}

\* C22: a motor block given a motor id that is none of the known ids is a
\* no-op: no motor handle's state changes, no deferred motor action is
\* scheduled or cancelled, and nothing is written to the transport (a timed
\* block still returns its promise).
C22_InvalidMotorIdNoOp ==
    [][/\ (/\ fam \in Families
           /\ lastOp'.name \in MotorBlockNames
           /\ lastOp'.args[1] = InvalidMotorID) =>
              /\ objs' = objs
              /\ timers' \ Promises' = timers \ Promises
              /\ out' = <<>>
       /\ (/\ fam = "Spike"
           /\ lastOp'.name = "motorSetPower"
           /\ lastOp'.args[1] \notin 0..3) =>
              (spk' = spk /\ out' = <<>>)]_vars

\* ------------------------------------------------------------------------
\* Specification of SPIKE requests with the scheduling the code can count
\* on: once the link is up the transport calls _onConnect.  Whether and when
\* the hub replies, and whether the link holds, is up to the hub.
\* ------------------------------------------------------------------------
SpecSettle ==
    /\ InitSpike
    /\ [][NextStale]_vars
    /\ WF_vars(sent.calls < MaxBurst /\ SpikeOnConnectCalled)

\* C23: the promise of every block operation settles eventually: every
\* request a SPIKE display block registered is resolved at some time, also
\* when the hub disconnects or never replies.
C23_EveryPromiseSettles ==
    \A n \in 1..MaxRequests : (spk.nreq >= n) ~> (n \in spk.resolved)

\* The timer with the given callback that runs in this step.
Fired(callback) ==
    {t \in timers \ timers' : lastOp'.name = "timer" /\ t.cb = callback}

\* C24: startBraking, run by the timer of a timed turn-on when its duration
\* is over, sends the brake frame (power byte 0x7F; written if the session
\* is connected and the limiter permits the send), sets isOn to false and
\* leaves exactly one deferred action for the motor: setMotorOff, due
\* 1000 ms later.  When that timer runs at its due time it sends the off
\* frame in the same way, and the motor is off and has no deferred action
\* left.
C24_BrakeThenOff ==
    [][/\ \A t \in Fired("startBraking") :
             /\ t.due = now
             /\ ~objs'[t.h].isOn
             /\ Cardinality({u \in timers' : u.h = t.h}) = 1
             /\ \A u \in timers' :
                   u.h = t.h =>
                      /\ u.cb = "setMotorOff"
                      /\ u.due = now + 1000
                      /\ objs'[t.h].pendingTimeoutId = u.id
             /\ out' = IF IsConnected /\ WindowCount < lim.max
                       THEN <<MotorFrame(objs[t.h].index, 127)>>
                       ELSE <<>>
       /\ \A t \in Fired("setMotorOff") :
             /\ t.due = now
             /\ t.h \in DOMAIN objs' => ~objs'[t.h].isOn
             /\ \A u \in timers' : u.h # t.h
             /\ out' = IF IsConnected /\ WindowCount < lim.max
                       THEN <<MotorFrame(objs[t.h].index, 0)>>
                       ELSE <<>>]_vars

C24_Witness ==
    /\ lastOp.name = "timer" /\ lastOp.cb = "setMotorOff"
    /\ lastOp.live
    /\ IsConnected
    /\ now = 2 * BRAKE_TIME_MS
    /\ motors[0] # Null
    /\ TimersOf(motors[0]) = {}
    /\ ~objs[motors[0]].isOn
    /\ out = <<MotorFrame(0, 0)>>

\* The motors the setMotorDirection block of this step addresses that are
\* registered and ON.
Redirected ==
    {c \in ConnectIDs :
        /\ lastOp'.name = "setMotorDirection"
        /\ \E k \in 1..Len(ForEachMotor(fam, lastOp'.args[1])) :
                ForEachMotor(fam, lastOp'.args[1])[k] = c
        /\ motors[c] # Null
        /\ objs[motors[c]].isOn}

\* C25: setMotorDirection on a motor that is ON with a brake pending at
\* time T leaves exactly one deferred action for the motor, the brake, still
\* due at T.
C25_DirectionKeepsBrakeTime ==
    [][\A c \in Redirected :
          \A t \in TimersOf(motors[c]) :
              t.cb = "startBraking" =>
                  /\ Cardinality({u \in timers' : u.h = motors[c]}) = 1
                  /\ \A u \in timers' :
                        u.h = motors[c] =>
                            u.cb = "startBraking" /\ u.due = t.due]_vars

\* C26: setMotorDirection on a motor that is ON with no deferred action
\* pending only reissues setMotorOn: the motor stays ON and no brake is
\* scheduled, whatever ran on the handle before.
C26_DirectionKeepsRunning ==
    [][\A c \in Redirected :
          TimersOf(motors[c]) = {} =>
              /\ objs'[motors[c]].isOn
              /\ \A u \in timers' : u.h # motors[c]]_vars

\* The registered motors the motorOn block of this step addresses; the
\* block calls setMotorOn on each of them.
TurnedOn ==
    {c \in ConnectIDs :
        /\ lastOp'.name = "motorOn"
        /\ \E k \in 1..Len(ForEachMotor(fam, lastOp'.args[1])) :
                ForEachMotor(fam, lastOp'.args[1])[k] = c
        /\ motors[c] # Null}

\* C27: setMotorOn sends the drive frame (written if the session is
\* connected and the limiter permits the send), sets isOn to true and
\* cancels the pending deferred action of the motor, the setMotorOff of a
\* brake-settle period included: afterwards no timer of the motor is left,
\* and a timer that runs is always the one its motor holds as pending, so
\* no brake or off command is sent by a timer scheduled before that drive
\* command.
C27_OnCancelsDeferred ==
    [][/\ \A c \in TurnedOn :
             /\ objs'[motors[c]].isOn
             /\ objs'[motors[c]].pendingTimeoutId = Null
             /\ \A u \in timers' : u.h # motors[c]
             /\ out' = IF IsConnected /\ WindowCount < lim.max
                       THEN <<MotorFrame(c, objs'[motors[c]].power)>>
                       ELSE <<>>
       /\ \A t \in (timers \ timers') \ Promises :
             lastOp'.name = "timer" => objs[t.h].pendingTimeoutId = t.id]_vars

C27_Witness ==
    /\ lastOp.name = "motorOn"
    /\ "setMotorOff" \in lastOp.cleared
    /\ IsConnected
    /\ motors[0] # Null
    /\ objs[motors[0]].isOn
    /\ TimersOf(motors[0]) = {}
    /\ out = <<MotorFrame(0, objs[motors[0]].power)>>

\* ------------------------------------------------------------------------
\* Specification of the motor frames over the whole range of stored powers:
\* one motor on port A of a connected session; the power setter, or the
\* power block that starts the script, is given every integer of [-100, 100]
\* and a little beyond on both sides (-129 and 127, whose bytes would be
\* 0x7F, included); then the script runs its blocks at any instant, and the
\* brake and off timers of a timed run write their frames when time has
\* passed.
\* ------------------------------------------------------------------------
FramePowers == (-129..129) \cup Powers

NextFrames ==
    \/ ble = "null" /\ Scan
    \/ Connect
    \/ \E data \in MotorMessages(fam) :
            IsConnected /\ motors = NoMotors /\ OnMessage(data)
    \/ /\ motors[0] # Null
       /\ objs[motors[0]].power = NewMotor(0).power
       /\ calls = 0
       /\ \E p \in FramePowers :
            \/ SetPower(0, p)
            \/ RunsBlock(MaxSolo) /\ StartMotorPower(MotorID.A, p)
            \/ RunsBlock(MaxSolo) /\ StartMotorPowerFor(MotorID.A, p, 0)
    \/ RunsBlock(MaxSolo) /\ MotorOn(MotorID.A)
    \/ RunsBlock(MaxSolo) /\ MotorOnFor(MotorID.A, 0)
    \/ RunsBlock(MaxSolo) /\ MotorOff(MotorID.A)
    \/ \E t \in timers : TimerFires(t)
    \/ Advance

SpecFrames == Init /\ [][NextFrames]_vars

\* The last byte of the frames written by the current step.
PowerBytesOut == {out[k][8] : k \in {j \in 1..Len(out) : Len(out[j]) = 8}}

\* C28: the power byte of a drive frame is never the brake sentinel 0x7F:
\* every stored power is in [-100, 100], the byte a frame of setMotorOn
\* carries is the stored power modulo 256, which is 0..100 or 156..255; the
\* frames the off block and the setMotorOff timer write carry 0x00, and
\* only the frame of startBraking carries 0x7F.
C28_BrakeByteNotAPower ==
    /\ \A h \in DOMAIN objs : objs[h].power \in -100..100
    /\ lastOp.name \in {"motorOn", "motorOnFor", "startMotorPower",
                        "startMotorPowerFor"} =>
          \A b \in PowerBytesOut :
              /\ b # BrakeByte
              /\ b \in 0..100 \cup 156..255
              /\ motors[0] # Null /\ b = objs[motors[0]].power % 256
    /\ (lastOp.name = "motorOff"
          \/ (lastOp.name = "timer" /\ lastOp.cb = "setMotorOff")) =>
          PowerBytesOut \subseteq {0}
    /\ (lastOp.name = "timer" /\ lastOp.cb = "startBraking") =>
          PowerBytesOut \subseteq {BrakeByte}

C28_Witness ==
    /\ lastOp.name = "motorOn"
    /\ motors[0] # Null
    /\ objs[motors[0]].power = -100
    /\ out = <<<<8, 0, 129, 0, 17, 81, 0, 156>>>>

\* The coast command of the EV3 motor on port 0.
CoastCommand == Coast(World).traced

\* C29: a coast timer of an EV3 motor sends the coast command only if no
\* newer turnOnFor / coastAfter was issued on the motor since it was
\* scheduled; the timer of the newest call (power not 0) sends exactly one
\* coast command when it runs, and that timer is due the duration plus
\* 1000 ms after the call that scheduled it (at once, if that is not
\* ahead).
C29_OnlyNewestCoasts ==
    [][/\ \A t \in Fired("coast") :
             /\ t.due = now
             /\ t.arg[1] # spk.ev3.nuid => lastOp'.traced = <<>>
             /\ (t.arg[1] = spk.ev3.nuid /\ spk.ev3.power # 0) =>
                   /\ Len(lastOp'.traced) = 1
                   /\ lastOp'.traced = CoastCommand
                   /\ spk'.ev3.commandID = Null
       /\ (lastOp'.name = "turnOnFor" /\ spk.ev3.power # 0) =>
             /\ spk'.ev3.commandID = spk'.ev3.nuid
             /\ Cardinality(timers' \ timers) = 1
             /\ \A u \in timers' \ timers :
                   /\ u.cb = "coast"
                   /\ u.arg = <<spk'.ev3.nuid>>
                   /\ u.due = now + Max2(0, lastOp'.args[1] + 1000)]_vars

\* turnOnFor(60) then turnOnFor(500) at time 0: the timer of the first call
\* ran at 1060 ms and sent nothing, the timer of the second call runs at
\* 1500 ms and sends the coast command.
C29_Witness ==
    /\ lastOp.name = "timer" /\ lastOp.cb = "coast"
    /\ spk.ev3.nuid = 2
    /\ spk.ev3.commandID = Null
    /\ now = 1500
    /\ timers = {}
    /\ lastOp.traced = CoastCommand

\* ------------------------------------------------------------------------
\* Specification of Spike.generateCommand as a function: it is called with
\* each command type, opcode bodies of every length up to MaxBody (lengths
\* of 256 bytes and more included) and an allocation below and above 255.
\* ------------------------------------------------------------------------
MaxBody == 260

\* An opcode body of n bytes.
Body(n) == [k \in 1..n |-> k % 256]

GenerateCommandCalled(type, n, allocation) ==
    /\ lastOp' = [Op("generateCommand") EXCEPT
                    !.args = <<type, n, allocation>>,
                    !.traced = <<GenerateCommand(type, Body(n), allocation)>>]
    /\ UNCHANGED <<fam, calls, ble, ports, motors, sensors, objs, timers, lim, now,
                   stopPending, spk, sent, out>>

NextCommand ==
    \E type \in {Ev3Command.DIRECT_COMMAND_REPLY,
                 Ev3Command.DIRECT_COMMAND_NO_REPLY},
       n \in 0..MaxBody, allocation \in {0, 300} :
        GenerateCommandCalled(type, n, allocation)

SpecCommand == InitSpike /\ [][NextCommand]_vars

\* C30: bytes 0 and 1 of the command generateCommand returns are the
\* little-endian encoding of its length minus 2 (byte 0 the length modulo
\* 256, byte 1 the length divided by 256), bytes 2 and 3 are zero, byte 4
\* is the command type and the opcode body follows the 7-byte header.
C30_LengthLittleEndian ==
    lastOp.name = "generateCommand" =>
        LET command == lastOp.traced[1]
            len == Len(command) - 2
        IN /\ Len(command) = 7 + lastOp.args[2]
           /\ command[1] = len % 256
           /\ command[2] = len \div 256
           /\ command[3] = 0 /\ command[4] = 0
           /\ command[5] = lastOp.args[1]
           /\ SubSeq(command, 8, Len(command)) = Body(lastOp.args[2])

\* ------------------------------------------------------------------------
\* Specification of EV3Motor.turnOnFor as an encoder: one call on a new
\* motor of either direction, with every duration up to MaxRampInput in
\* both signs and durations around the 2-byte / 4-byte limit of the run.
\* ------------------------------------------------------------------------
MaxRampInput == 150

RampDurations ==
    (-MaxRampInput..MaxRampInput)
        \cup {32866, 32867, 40000, 70000, -32866, -32867, -40000, -70000}

NextRamp ==
    \/ \E d \in {-1, 1} : spk.ev3.nuid = 0 /\ EV3SetDirection(d)
    \/ \E ms \in RampDurations : spk.ev3.nuid = 0 /\ EV3TurnOnFor(ms)

SpecRamp == InitEV3 /\ [][NextRamp]_vars

\* The little-endian value of the bytes of cmd from position lo to hi.
LittleEndian(cmd, lo, hi) ==
    LET RECURSIVE Value(_)
        Value(k) == IF k > hi THEN 0 ELSE cmd[k] + 256 * Value(k + 1)
    IN Value(lo)

\* The three phase durations a turnOnFor command carries: ramp-up after the
\* direction byte, run with its 2-byte or 4-byte tag, then ramp-down.
Phases(cmd) ==
    LET four == cmd[15] = Ev3Encoding.FOUR_BYTES
        last == IF four THEN 19 ELSE 17
    IN [rampup |-> cmd[14],
        run |-> LittleEndian(cmd, 16, last),
        rampdown |-> cmd[last + 2]]

\* C31: the ramp-up, run and ramp-down durations of a turnOnFor command
\* add up to n, the absolute value of the duration: 50, n - 100 and 50 when
\* n >= 100, else floor(n / 2), 0 and n - floor(n / 2); none is negative.
C31_PhasesAddUp ==
    lastOp.name = "turnOnFor" =>
        LET d  == lastOp.args[1]
            n  == IF d < 0 THEN -d ELSE d
            ph == Phases(lastOp.traced[1])
        IN /\ Len(lastOp.traced) = 1
           /\ ph.rampup + ph.run + ph.rampdown = n
           /\ ph.rampup >= 0 /\ ph.run >= 0 /\ ph.rampdown >= 0
           /\ n >= 100 =>
                 ph.rampup = 50 /\ ph.rampdown = 50 /\ ph.run = n - 100
           /\ n < 100 =>
                 /\ ph.run = 0
                 /\ ph.rampup = n \div 2
                 /\ ph.rampdown = n - (n \div 2)

C31_Witness ==
    /\ lastOp.name = "turnOnFor"
    /\ lastOp.args = <<-61>>
    /\ Phases(lastOp.traced[1]) = [rampup |-> 30, run |-> 0, rampdown |-> 31]

\* ------------------------------------------------------------------------
\* Specification of the promises of the timed blocks: sessions of the three
\* families, connected or not, with or without a motor on port A, and
\* durations below, inside and above the range 0..15 s.
\* ------------------------------------------------------------------------
MaxPromises == 1

BlockSeconds == {-1, 1, 20}

\* MIDI notes below, inside and above the range 47..99 of beep.
BeepNotes == {40, 60, 69, 110}

NextPaced ==
    \/ Scan
    \/ Connect
    \/ /\ fam \in Families
       /\ \E data \in MotorMessages(fam) :
            IsConnected /\ OnMessage(data) /\ Cardinality(DOMAIN objs') <= 1
    \/ /\ fam \in Families
       /\ WindowCount < MaxBurst
       /\ Cardinality(Promises) < MaxPromises
       /\ UNCHANGED calls
       /\ \E seconds \in BlockSeconds :
            \/ MotorOnFor(MotorID.A, seconds)
            \/ StartMotorPowerFor(MotorID.A, 150, seconds)
    \/ /\ Cardinality(Promises) < MaxPromises
       /\ \E seconds \in BlockSeconds, port \in {0, InvalidPort} :
            \/ SpikeMotorTurnClockwise(port, seconds)
            \/ SpikeMotorTurnCounterClockwise(port, seconds)
    \/ /\ Cardinality(Promises) < MaxPromises
       /\ \E note \in BeepNotes, seconds \in BlockSeconds : Beep(note, seconds)
    \/ \E t \in timers : TimerFires(t)
    \/ Advance

SpecPaced == InitSend /\ [][NextPaced]_vars

\* C32: a timed block (motorOnFor, startMotorPowerFor, motorTurnClockwise)
\* schedules the resolution of its promise the duration, clamped to
\* 0..15000 ms, after the call, with or without a motor at the port and
\* connected or not; the resolution is never cancelled and runs when that
\* time has elapsed.
C32_PromiseResolvesAfterDuration ==
    [][/\ lastOp'.name \in {"motorOnFor", "startMotorPowerFor",
                            "motorTurnClockwise"} =>
             LET ms == 1000 * lastOp'.args[2]
                 clamped == IF ms < 0 THEN 0 ELSE IF ms > 15000 THEN 15000 ELSE ms
                 new == {t \in timers' \ timers : t.cb = "resolve"}
             IN /\ Cardinality(new) = 1
                /\ \A t \in new : t.due = now + clamped
                /\ Promises \subseteq timers'
       /\ \A t \in Promises \ timers' :
             /\ lastOp'.name = "timer" /\ lastOp'.cb = "resolve"
             /\ t.due = now
             /\ Promises \ timers' = {t}]_vars

C32_Witness ==
    /\ fam = "DuploTrain"
    /\ lastOp.name = "timer" /\ lastOp.cb = "resolve"
    /\ ~IsConnected
    /\ motors[0] = Null
    /\ now = 1000
    /\ Promises = {}

\* C33: for every motor handle, pendingTimeoutStartTime and
\* pendingTimeoutDelay are non-null exactly when pendingTimeoutId is
\* non-null, i.e. when a deferred action is pending.
C33_TimeoutFieldsTogether ==
    \A h \in DOMAIN objs :
        /\ (objs[h].pendingTimeoutStartTime # Null) = (objs[h].pendingTimeoutId # Null)
        /\ (objs[h].pendingTimeoutDelay # Null) = (objs[h].pendingTimeoutId # Null)

\* C34: a timer of a motor handle that is no longer registered (its port
\* detached, or the session was reset) writes nothing to the transport.
C34_DiscardedHandleSilent ==
    (lastOp.name = "timer" /\ lastOp.cb \in {"startBraking", "setMotorOff"}
        /\ ~lastOp.live) => out = <<>>

\* C35: a motor handle exists at port c exactly when the registry records a
\* device of a motor type at c.
C35_HandleIffMotorType ==
    \A c \in ConnectIDs :
        (motors[c] # Null) = (PortType(c) # Null /\ IsMotorType(fam, PortType(c)))

\* ------------------------------------------------------------------------
\* Specification of the limiter's budget across connects and disconnects:
\* limited sends (setLED on PoweredUp and DuploTrain, a command without
\* response on SPIKE) on sessions that are connected or not, up to a full
\* window of them.
\* ------------------------------------------------------------------------
NextBudget ==
    \/ Scan
    \/ Connect
    \/ Disconnect
    \/ \E colour \in Colours(fam) : Dropped < MaxDropped /\ SetLED(colour)
    \/ Dropped < MaxDropped /\ SendCommand("scratch.display_clear", FALSE, NoId)
    \/ Advance

SpecBudget == InitSend /\ [][NextBudget]_vars

\* C36: a limited send on a session that is not connected is dropped
\* without asking the limiter: the limiter's window and counter are what
\* they were, nothing is written and the promise is already resolved; and a
\* limited send on a connected session whose window holds fewer than N
\* permitted sends is written, whatever was sent while not connected.
C36_DroppedSendKeepsBudget ==
    [][lastOp'.name \in {"setLED", "sendCommand"} =>
          /\ ~IsConnected =>
                /\ lim' = lim
                /\ out' = <<>>
                /\ lastOp'.ret = "resolved"
          /\ (IsConnected /\ WindowCount < lim.max) =>
                /\ Len(out') = 1
                /\ lastOp'.ret = "write"
                /\ lim'.count = WindowCount + 1]_vars

C36_Witness ==
    /\ lastOp.name \in {"setLED", "sendCommand"}
    /\ lastOp.ret = "resolved"
    /\ ble = "idle"
    /\ lim.count = 1
    /\ now = lim.start

\* ------------------------------------------------------------------------
\* Specification of motor commands under other traffic: one motor on port
\* A of a PoweredUp or DuploTrain session that is scanned and connected
\* once is turned on, with and without a duration, while setLED calls send
\* through the limiter at any instant, until the limiter has refused
\* MaxDropped of them in a window (SpecOffline covers the sends of sessions
\* that are not connected).
\* ------------------------------------------------------------------------
NextFlood ==
    \/ ble = "null" /\ Scan
    \/ Connect
    \/ \E data \in {AttachMsg(0, IF fam = "PoweredUp" THEN PoweredUpTypes.MOTOR
                                ELSE DuploTrainTypes.MOTOR)} :
            IsConnected /\ OnMessage(data) /\ DOMAIN objs = {}
    \/ RunsBlock(MaxCalls) /\ MotorOnFor(MotorID.A, 1)
    \/ RunsBlock(MaxCalls) /\ MotorOn(MotorID.A)
    \/ \E colour \in Colours(fam) : Dropped < MaxDropped /\ SetLED(colour)
    \/ \E t \in timers : TimerFires(t)
    \/ Advance

SpecFlood == Init /\ [][NextFlood]_vars

\* C37: on a connected session, when the brake timer of a timed run and,
\* 1000 ms later, the off timer run for a registered motor that got no
\* further command, the brake frame and the off frame are written to the
\* transport, whatever else the session sent through the limiter.
C37_BrakeAndOffWritten ==
    [][/\ \A t \in Fired("startBraking") :
             (IsConnected /\ motors[objs[t.h].index] = t.h) =>
                  out' = <<MotorFrame(objs[t.h].index, BrakeByte)>>
       /\ \A t \in Fired("setMotorOff") :
             (IsConnected /\ motors[objs[t.h].index] = t.h) =>
                  out' = <<MotorFrame(objs[t.h].index, 0)>>]_vars

\* ------------------------------------------------------------------------
\* Specification of PROJECT_STOP_ALL over running motors: one motor on
\* port A of a PoweredUp or DuploTrain session, turned on with and without
\* a duration by scripts of up to MaxCalls blocks, stop-all and the
\* completion of its stop-tone write at any instant, and the timers the
\* timed runs left.
\* ------------------------------------------------------------------------
NextStop ==
    \/ Scan
    \/ Connect
    \/ \E data \in MotorMessages(fam) :
            IsConnected /\ OnMessage(data) /\ Cardinality(DOMAIN objs') <= 1
    \/ RunsBlock(MaxCalls) /\ MotorOnFor(MotorID.A, 1)
    \/ RunsBlock(MaxCalls) /\ MotorOn(MotorID.A)
    \/ StopAll
    \/ StopToneWritten
    \/ \E t \in timers : TimerFires(t)
    \/ Advance

SpecStop == Init /\ [][NextStop]_vars

\* This step runs stopAllMotors.
StopsMotors ==
    \/ lastOp'.name = "stopToneWritten"
    \/ fam = "DuploTrain" /\ lastOp'.name = "stopAll" /\ IsConnected

\* C38: when stopAllMotors has run every registered motor has isOn false,
\* and until a block command is issued no motor is turned on and no drive
\* frame is written: stop-all, the clock and the timers left pending by
\* setMotorOnFor or startBraking leave a motor that is off off, and the
\* motor frames they write carry the brake byte 0x7F or the off byte 0x00.
C38_OnlyBrakeOrOffAfterStop ==
    [][/\ StopsMotors =>
             \A c \in ConnectIDs :
                 motors'[c] # Null => ~objs'[motors'[c]].isOn
       /\ lastOp'.name \in {"stopAll", "stopToneWritten", "timer", "advance"} =>
             /\ \A h \in DOMAIN objs \cap DOMAIN objs' :
                    ~objs[h].isOn => ~objs'[h].isOn
             /\ \A k \in 1..Len(out') :
                    Len(out'[k]) = 8 => out'[k][8] \in {BrakeByte, 0}]_vars

C38_Witness ==
    /\ lastOp.name \in {"stopAll", "stopToneWritten"}
    /\ IsConnected
    /\ motors[0] # Null
    /\ ~objs[motors[0]].isOn
    /\ \E t \in TimersOf(motors[0]) : t.cb = "startBraking"
    /\ out = <<MotorFrame(0, 0)>>

\* ------------------------------------------------------------------------
\* Specification of dropped SPIKE requests: commands with and without a
\* response on a session that is connected or not, with enough commands at
\* one instant to use up the limiter's window.
\* ------------------------------------------------------------------------
NextDrop ==
    \/ Scan
    \/ Connect
    \/ Disconnect
    \/ \E needsResponse \in BOOLEAN :
            /\ Dropped < MaxDropped
            /\ needsResponse => spk.nreq < MaxRequests
            /\ SendCommand("scratch.display_clear", needsResponse, "a1b2")
    \/ Advance

SpecDrop == InitSpike /\ [][NextDrop]_vars

\* C39: a sendCommand that needs a response and is dropped, because the
\* session is not connected or the limiter refuses, writes nothing, leaves
\* the pending-request table as it was and returns an already-resolved
\* promise; one that is not dropped is written and registered; and the
\* table gets an entry only in a step that writes the request.
C39_DroppedRequestNotRegistered ==
    [][/\ (lastOp'.name = "sendCommand" /\ lastOp'.args[2] # NoId) =>
             IF IsConnected /\ WindowCount < lim.max
             THEN /\ Len(out') = 1
                  /\ lastOp'.ret = "request"
                  /\ lastOp'.args[2] \in DOMAIN spk'.open
                  /\ spk'.nreq = spk.nreq + 1
             ELSE /\ out' = <<>>
                  /\ lastOp'.ret = "resolved"
                  /\ spk'.open = spk.open
                  /\ spk'.nreq = spk.nreq
       /\ (spk'.nreq # spk.nreq \/ DOMAIN spk'.open # DOMAIN spk.open) =>
             /\ lastOp'.name = "sendCommand"
             /\ Len(out') = 1]_vars

C39_Witness ==
    /\ fam = "Spike" /\ IsConnected
    /\ lastOp.name = "sendCommand" /\ lastOp.args[2] # NoId
    /\ lastOp.ret = "resolved"
    /\ sent.calls = BTSendRateMax + 1
    /\ out = <<>>
    /\ DOMAIN spk.open = {}

\* ------------------------------------------------------------------------
\* Specification of the lifecycle operations called in any order: scan,
\* connect(id), disconnect() and isConnected() on each of the four classes,
\* the transport handle still null until the first scan.
\* ------------------------------------------------------------------------
\* The second DuploTrain class of the source: its scan hands the transport
\* no reset callback and its disconnect resets the registry itself.
DuploTrain2 == "DuploTrain2"

Classes == AllFamilies \cup {DuploTrain2}

\* The family whose registry and sensor defaults a class has.
ClassFamily(c) == IF c = DuploTrain2 THEN "DuploTrain" ELSE c

\* Peripheral ids the runtime passes to connect.
PeripheralIds == {1, 2, 3}

InitOrder ==
    /\ fam \in Classes
    /\ ble = "null"
    /\ ports = NoPorts
    /\ motors = NoMotors
    /\ sensors = DefaultSensors(ClassFamily(fam))
    /\ objs = [h \in {} |-> NewMotor(0)]
    /\ timers = {}
    /\ lim = NewRateLimiter(SendRateMax(fam))
    /\ now = 0
    /\ stopPending = 0
    /\ spk = NewSpike
    /\ sent = [calls |-> 0, writes |-> 0]
    /\ calls = 0
    /\ out = <<>>
    /\ lastOp = Op("init")

\* connectDevice(id) / connect(id).  PoweredUp and both DuploTrain classes
\* call the method on `this._ble` whatever it holds, which raises a TypeError
\* on null; Spike calls it only `if (this._bt)`.
ConnectCalled(id) ==
    /\ ble # "connected"
    /\ ble' = IF ble = "null" THEN "null" ELSE "connected"
    /\ spk' = IF ble = "null" THEN spk
              ELSE [spk EXCEPT !.onConnect = (fam = "Spike")]
    /\ out' = <<>>
    /\ lastOp' = [Op("connectCalled") EXCEPT
                    !.args = <<id>>,
                    !.ret = IF ble = "null" /\ fam # "Spike"
                            THEN "TypeError" ELSE "returned"]
    /\ UNCHANGED <<fam, calls, ports, motors, sensors, objs, timers, lim, now,
                   stopPending, sent>>

\* disconnectSession() / disconnect().  PoweredUp and the second DuploTrain
\* class reset the registry and then call the method on `this._ble` whatever
\* it holds; the first DuploTrain class and Spike call it only when the handle
\* is set, and reset afterwards.
DisconnectCalled ==
    /\ ports' = NoPorts
    /\ motors' = NoMotors
    /\ sensors' = DefaultSensors(ClassFamily(fam))
    /\ spk' = IF fam = "Spike"
              THEN [SpikeReset(World).spk EXCEPT !.onConnect = FALSE]
              ELSE spk
    /\ ble' = IF ble = "null" THEN "null" ELSE "idle"
    /\ out' = <<>>
    /\ lastOp' = [Op("disconnectCalled") EXCEPT
                    !.ret = IF ble = "null" /\ fam \in {"PoweredUp", DuploTrain2}
                            THEN "TypeError" ELSE "returned"]
    /\ UNCHANGED <<fam, calls, objs, timers, lim, now, stopPending, sent>>

\* getPeripheralIsConnected() / isConnected(): false while the handle is null.
IsConnectedCalled ==
    /\ lastOp' = [Op("isConnectedCalled") EXCEPT
                    !.ret = IF ble # "null" /\ IsConnected
                            THEN "true" ELSE "false"]
    /\ UNCHANGED <<fam, calls, ble, ports, motors, sensors, objs, timers, lim, now,
                   stopPending, spk, sent, out>>

NextOrder ==
    \/ Scan
    \/ \E id \in PeripheralIds : ConnectCalled(id)
    \/ DisconnectCalled
    \/ IsConnectedCalled
    \/ Advance

SpecOrder == InitOrder /\ [][NextOrder]_vars

\* C40: connect(id), disconnect() and isConnected() never raise, in whatever
\* order they are called and on every class, a call before any scan included.
C40_LifecycleNeverRaises ==
    lastOp.name \in {"connectCalled", "disconnectCalled", "isConnectedCalled"}
        => lastOp.ret # "TypeError"

====
